---- MODULE Spec2Model ----
(***************************************************************************)
(* Link resolution, the value -> route index and the documentation scanner *)
(* of crates/tinymist-analysis/src/upstream/mod.rs, and the configuration  *)
(* updates of crates/tinymist/src/init.rs.                                 *)
(*                                                                         *)
(* Strings are TLA+ strings used as sequences of characters (Len, SubSeq,  *)
(* \o).  "" stands for an absent Option<&str>/Option<Category> where the   *)
(* code has None, and "-" for an absent nested scope.                      *)
(***************************************************************************)
EXTENDS Integers, Sequences, FiniteSets, TLC

VARIABLES
    env,        \* which library and embedded groups.yml this process has
    GROUPS,     \* LazyLock<Vec<GroupData>>
    call,       \* the last resolve call and what it returned
    ROUTE_MAPS, \* LazyLock<HashMap<CatKey, String>> and the build's position
    query,      \* the route_of_value call in progress or last returned
    earlier,    \* some earlier route_of_value call and its result
    scan,       \* plain_docs_sentence: scanner, output, link flag, history
    LIBRARY,    \* LazyLock<Library>
    once,       \* per LazyLock: the thread running its initializer, and the runs so far
    threads,    \* concurrent first callers: what each calls and has observed
    config      \* Config (init.rs): the updates it gets and the font options read

vars == <<env, GROUPS, call, ROUTE_MAPS, query, earlier, scan, LIBRARY, once, threads, config>>

\* What an action of a single caller leaves alone.
lazy == <<LIBRARY, once, threads, config>>

-----------------------------------------------------------------------------
(* str methods *)

\* s[m..n], empty when the range is.
Slice(s, m, n) == IF m > n THEN "" ELSE SubSeq(s, m, n)

\* The i-th character, "" past the end.
CharAt(s, i) == IF 1 <= i /\ i <= Len(s) THEN SubSeq(s, i, i) ELSE ""

StartsWith(s, p) == Len(s) >= Len(p) /\ Slice(s, 1, Len(p)) = p

EndsWith(s, p) == Len(s) >= Len(p) /\ Slice(s, Len(s) - Len(p) + 1, Len(s)) = p

ContainsAny(s, chars) == \E i \in 1..Len(s) : CharAt(s, i) \in chars

\* Position of the first c at or after position from; Len(s) + 1 when there is none.
Find(s, c, from) ==
    LET hits == {i \in from..Len(s) : CharAt(s, i) = c}
    IN  IF hits = {} THEN Len(s) + 1
        ELSE CHOOSE i \in hits : \A j \in hits : i <= j

TrimStartMatches(s, c) ==
    LET keep == {i \in 1..Len(s) : CharAt(s, i) # c}
    IN  IF keep = {} THEN ""
        ELSE Slice(s, CHOOSE i \in keep : \A j \in keep : i <= j, Len(s))

RECURSIVE Split(_, _)
Split(s, c) ==
    LET k == Find(s, c, 1)
    IN  IF k > Len(s) THEN <<s>>
        ELSE <<Slice(s, 1, k - 1)>> \o Split(Slice(s, k + 1, Len(s)), c)

-----------------------------------------------------------------------------
(* The namespace tree: Library, Module, Scope, Binding, Value *)

NoCat == ""
NoScope == "-"

Func(name, repr, id, cat, params, scope) ==
    [name |-> name, kind |-> "func", repr |-> repr, id |-> id, fname |-> id,
     cat |-> cat, params |-> params, scope |-> scope, callable |-> TRUE]

Closure(name, id, fname, cat) ==
    [name |-> name, kind |-> "func", repr |-> "closure", id |-> id, fname |-> fname,
     cat |-> cat, params |-> {}, scope |-> NoScope, callable |-> TRUE]

Type(name, cat, ctor, scope) ==
    [name |-> name, kind |-> "type", repr |-> "-", id |-> name, fname |-> name,
     cat |-> cat, params |-> ctor, scope |-> scope, callable |-> ctor # {}]

Module(name, cat, scope) ==
    [name |-> name, kind |-> "module", repr |-> "-", id |-> name, fname |-> "",
     cat |-> cat, params |-> {}, scope |-> scope, callable |-> FALSE]

Other(name, cat) ==
    [name |-> name, kind |-> "other", repr |-> "-", id |-> name, fname |-> "",
     cat |-> cat, params |-> {}, scope |-> NoScope, callable |-> FALSE]

NoBinding ==
    [name |-> "", kind |-> "none", repr |-> "-", id |-> "", fname |-> "",
     cat |-> NoCat, params |-> {}, scope |-> NoScope, callable |-> FALSE]

\* A library in the shape of typst's: categorized top-level definitions, the
\* calc module, a type with a scope, the math module (also the second root),
\* an uncategorized module, and a function defined both globally and in a
\* type's scope.
LibStd ==
    [global |-> "G", math |-> "M",
     scopes |->
       [G     |-> << Func("cite", "element", "cite", "model", {"key", "form"}, NoScope),
                     Module("calc", "foundations", "calc"),
                     Type("int", "foundations", {"value"}, "int"),
                     Module("math", "math", "M"),
                     Module("sys", NoCat, "sys"),
                     Func("rgb", "native", "rgb", "visualize", {"red"}, NoScope),
                     Type("color", "visualize", {}, "color") >>,
        calc  |-> << Func("abs", "native", "abs", NoCat, {"value"}, NoScope),
                     Other("pi", NoCat) >>,
        int   |-> << Func("signum", "native", "signum", NoCat, {"value"}, NoScope) >>,
        M     |-> << Func("attach", "element", "attach", "math", {"base"}, NoScope),
                     Func("limits", "element", "limits", "math", {"body"}, NoScope),
                     Func("frac", "element", "frac", "math", {"num"}, NoScope) >>,
        sys   |-> << Other("version", NoCat) >>,
        color |-> << Func("rgb", "native", "rgb", NoCat, {"red"}, NoScope) >> ]]

\* A library with deeper nesting: a module inside an uncategorized module, a
\* function with its own scope, a top-level function named like a member of
\* a grouped module, a definition named like a known destination, a
\* categorized closure bound at top level, a grouped function with a scope
\* of its own, and a value and a type whose category differs from their
\* module's.
LibNest ==
    [global |-> "G", math |-> "M",
     scopes |->
       [G       |-> << Module("std", NoCat, "std"),
                       Func("outline", "element", "outline", "model", {"depth"}, "outline"),
                       Func("abs", "native", "abs2", "foundations", {"value"}, NoScope),
                       Module("math", NoCat, "M"),
                       Func("context", "native", "context", "foundations", {}, NoScope),
                       Closure("cite", "clo", "cite", "model") >>,
        std     |-> << Module("calc", "foundations", "calc"),
                       Func("cite", "element", "cite", "model", {"key"}, NoScope) >>,
        calc    |-> << Func("abs", "native", "abs", NoCat, {"value"}, "abs"),
                       Type("int", "math", {"value"}, "int"),
                       Other("tau", "math") >>,
        int     |-> << Func("signum", "native", "signum", NoCat, {}, NoScope) >>,
        outline |-> << Func("entry", "element", "entry", NoCat, {"level"}, NoScope) >>,
        abs     |-> << Func("sign", "native", "sign", NoCat, {}, NoScope) >>,
        M       |-> << Func("frac", "element", "frac", "math", {"num"}, NoScope) >> ]]

\* Scope::get
ScopeGet(lib, sid, name) ==
    LET sc == lib.scopes[sid]
        hits == {i \in 1..Len(sc) : sc[i].name = name}
    IN  IF sid = NoScope \/ hits = {} THEN NoBinding
        ELSE sc[CHOOSE i \in hits : TRUE]

\* Extract a module from another module.
get_module(lib, parent, name) ==
    LET b == ScopeGet(lib, parent, name)
    IN  IF b.kind = "module" THEN [ok |-> TRUE, module |-> b.scope]
        ELSE [ok |-> FALSE, module |-> NoScope]

\* Value::field: the nested scope of a function, type or module.
ValueField(lib, value, name) ==
    IF value.kind \in {"func", "type", "module"} /\ value.scope # NoScope
    THEN ScopeGet(lib, value.scope, name)
    ELSE NoBinding

\* value.cast::<Func>().is_ok_and(|func| func.param(next).is_some())
HasParam(value, next) ==
    /\ value.kind # "none"
    /\ value.callable
    /\ next \in value.params

-----------------------------------------------------------------------------
(* GroupData and GROUPS *)

GroupData(name, category, path, filter) ==
    [name |-> name, category |-> category, path |-> path, filter |-> filter]

\* typst's own groups.yml for LibStd: calc has no filter, attach has one.
GroupsStd ==
    << GroupData("calc", "foundations", <<"calc">>, <<>>),
       GroupData("attach", "math", <<"math">>, <<"attach", "limits">>) >>

GroupsNone == << >>

\* A group whose filter names a symbol of another category, and a group of
\* the root scope itself (empty path).
GroupsOdd ==
    << GroupData("text", "text", <<"calc">>, <<"abs", "cite">>),
       GroupData("root", "visualize", <<>>, <<>>) >>

GroupsNest ==
    << GroupData("calc", "foundations", <<"std", "calc">>, <<>>) >>

\* A group without a filter whose path names a type, after a sound group.
GroupsBad ==
    << GroupData("calc", "foundations", <<"calc">>, <<>>),
       GroupData("numbers", "foundations", <<"int">>, <<>>) >>

\* The processes this model runs: a library and the groups.yml built into it.
EnvNames == {"std", "std-nogroups", "std-odd", "nest", "std-bad"}

EnvOf(name) ==
    CASE name = "std"          -> [lib |-> LibStd, yml |-> GroupsStd]
      [] name = "std-nogroups" -> [lib |-> LibStd, yml |-> GroupsNone]
      [] name = "std-odd"      -> [lib |-> LibStd, yml |-> GroupsOdd]
      [] name = "nest"         -> [lib |-> LibNest, yml |-> GroupsNest]
      [] name = "std-bad"      -> [lib |-> LibStd, yml |-> GroupsBad]

Env == EnvOf(env)

\* GroupData::module: walks path from the global module; every get_module is
\* unwrapped.
RECURSIVE GroupModule(_, _, _, _)
GroupModule(lib, path, i, focus) ==
    IF i > Len(path) THEN [ok |-> TRUE, module |-> focus]
    ELSE LET m == get_module(lib, focus, path[i])
         IN  IF m.ok THEN GroupModule(lib, path, i + 1, m.module)
             ELSE [ok |-> FALSE, module |-> NoScope]

\* The names of all the bindings of a scope.
RECURSIVE FuncNames_AnyValue(_, _)
FuncNames_AnyValue(sc, i) ==
    IF i > Len(sc) THEN <<>>
    ELSE <<sc[i].name>> \o FuncNames_AnyValue(sc, i + 1)

\* The names of the function-valued bindings of a scope, in scope order.
RECURSIVE FuncNames(_, _)
FuncNames(sc, i) ==
    IF i > Len(sc) THEN <<>>
    ELSE (IF sc[i].kind = "func" THEN <<sc[i].name>> ELSE <<>>) \o FuncNames(sc, i + 1)

FillGroup(lib, group) ==
    IF group.filter # <<>> THEN [ok |-> TRUE, group |-> group]
    ELSE LET m == GroupModule(lib, group.path, 1, lib.global)
         IN  IF ~m.ok THEN [ok |-> FALSE, group |-> group]
             ELSE [ok |-> TRUE,
                   group |-> [group EXCEPT !.filter = FuncNames(lib.scopes[m.module], 1)]]

\* The initializer of GROUPS: the lock's value, or poisoned when an unwrap panics.
GroupsInit(e) ==
    LET filled == [i \in 1..Len(e.yml) |-> FillGroup(e.lib, e.yml[i])]
    IN  IF \A i \in 1..Len(e.yml) : filled[i].ok
        THEN [state |-> "init", val |-> [i \in 1..Len(e.yml) |-> filled[i].group]]
        ELSE [state |-> "poisoned", val |-> <<>>]

Uninit == [state |-> "uninit", val |-> <<>>]

\* Dereferencing the LazyLock: the initializer runs on the first access only.
Force(lock, e) == IF lock.state = "uninit" THEN GroupsInit(e) ELSE lock

SeqContains(seq, x) == \E i \in 1..Len(seq) : seq[i] = x

\* GROUPS.iter().find(..): the first group of the category whose filter has the name.
FindGroup(groups, category, name) ==
    LET hits == {i \in 1..Len(groups) :
                    /\ groups[i].category = category
                    /\ SeqContains(groups[i].filter, name)}
    IN  IF hits = {} THEN 0 ELSE CHOOSE i \in hits : \A j \in hits : i <= j

-----------------------------------------------------------------------------
(* resolve *)

Ok(route, lock) == [st |-> "ok", val |-> route, lock |-> lock]
Err(msg, lock) == [st |-> "err", val |-> msg, lock |-> lock]
Panic(lock) == [st |-> "panic", val |-> "", lock |-> lock]

\* Split a link at the first slash.
split_link(link) ==
    LET k == Find(link, "/", 1)
        first == Slice(link, 1, k - 1)
        rest == TrimStartMatches(Slice(link, Len(first) + 1, Len(link)), "/")
    IN  [head |-> first, tail |-> rest]

KnownHeads ==
    {"$tutorial", "$reference", "$category", "$syntax", "$styling", "$scripting",
     "$context", "$guides", "$changelog", "$community", "$universe"}

KnownSuffix(head) ==
    CASE head = "$tutorial"  -> "tutorial"
      [] head = "$reference" -> "reference"
      [] head = "$category"  -> "reference"
      [] head = "$syntax"    -> "reference/syntax"
      [] head = "$styling"   -> "reference/styling"
      [] head = "$scripting" -> "reference/scripting"
      [] head = "$context"   -> "reference/context"
      [] head = "$guides"    -> "guides"
      [] head = "$changelog" -> "changelog"
      [] head = "$community" -> "community"

resolve_known_OrBase(head, base) ==
    IF head \notin KnownHeads THEN [some |-> TRUE, route |-> base]
    ELSE IF head = "$universe" THEN [some |-> TRUE, route |-> "https://typst.app/universe"]
    ELSE [some |-> TRUE, route |-> base \o KnownSuffix(head)]

\* Resolve a `$` link head to a known destination.
resolve_known(head, base) ==
    IF head \notin KnownHeads THEN [some |-> FALSE, route |-> ""]
    ELSE IF head = "$universe" THEN [some |-> TRUE, route |-> "https://typst.app/universe"]
    ELSE [some |-> TRUE, route |-> base \o KnownSuffix(head)]

RECURSIVE Walk_LastCategory(_, _, _, _, _)
Walk_LastCategory(lib, parts, i, focus, category) ==
    IF i > Len(parts) THEN [i |-> i, focus |-> focus, category |-> category]
    ELSE LET name == parts[i]
             cat == IF ScopeGet(lib, focus, name).cat # NoCat
                    THEN ScopeGet(lib, focus, name).cat ELSE category
             m == get_module(lib, focus, name)
         IN  IF m.ok THEN Walk_LastCategory(lib, parts, i + 1, m.module, cat)
             ELSE [i |-> i, focus |-> focus, category |-> cat]

\* A walk that does not descend into the module its last part names.
RECURSIVE Walk_KeepLast(_, _, _, _, _)
Walk_KeepLast(lib, parts, i, focus, category) ==
    IF i > Len(parts) THEN [i |-> i, focus |-> focus, category |-> category]
    ELSE LET name == parts[i]
             cat == IF category = NoCat THEN ScopeGet(lib, focus, name).cat ELSE category
             m == get_module(lib, focus, name)
         IN  IF m.ok /\ i < Len(parts) THEN Walk_KeepLast(lib, parts, i + 1, m.module, cat)
             ELSE [i |-> i, focus |-> focus, category |-> cat]

\* The while-let loop of resolve_definition: descends while the peeked part
\* names a module, capturing the first category met on the way.
RECURSIVE Walk(_, _, _, _, _)
Walk(lib, parts, i, focus, category) ==
    IF i > Len(parts) THEN [i |-> i, focus |-> focus, category |-> category]
    ELSE LET name == parts[i]
             cat == IF category = NoCat THEN ScopeGet(lib, focus, name).cat ELSE category
             m == get_module(lib, focus, name)
         IN  IF m.ok THEN Walk(lib, parts, i + 1, m.module, cat)
             ELSE [i |-> i, focus |-> focus, category |-> cat]

GroupRoute_PerSymbol(base, group, name, parts, i) ==
    base \o "reference/" \o group.category \o "/" \o name

\* The route of a grouped function.
GroupRoute(base, group, name, parts, i) ==
    base \o "reference/" \o group.category \o "/" \o group.name \o "/#functions-" \o name
         \o (IF i + 1 <= Len(parts) THEN "-" \o parts[i + 1] ELSE "")

\* The route of an ungrouped definition, with its field or parameter.
DefaultRoute(lib, base, category, value, name, parts, i, lock) ==
    LET route == base \o "reference/" \o category \o "/" \o name
        next == parts[i + 1]
        field == ValueField(lib, value, next)
    IN  IF i + 1 > Len(parts) THEN Ok(route, lock)
        ELSE IF field.kind # "none"
        THEN Ok(route \o "/#definitions-" \o next
                      \o (IF i + 2 <= Len(parts) /\ HasParam(field, parts[i + 2])
                          THEN "-" \o parts[i + 2] ELSE ""), lock)
        ELSE IF HasParam(value, next)
        THEN Ok(route \o "/#parameters-" \o next, lock)
        ELSE Err("field " \o next \o " not found", lock)

\* Resolve a `$` link to a global definition.  lock is GROUPS before the
\* call; the result carries GROUPS after it.
resolve_definition(e, lock, head, base) ==
    LET parts == Split(TrimStartMatches(head, "$"), ".")
        w == Walk(e.lib, parts, 1, e.lib.global, NoCat)
        name == parts[w.i]
        value == ScopeGet(e.lib, w.focus, name)
        groups == Force(lock, e)
        g == FindGroup(groups.val, w.category, name)
    IN  IF w.category = NoCat THEN Err(head \o " has no category", lock)
        ELSE IF w.i > Len(parts) THEN Err("link is missing first part", lock)
        ELSE IF value.kind = "none" THEN Err("module does not contain " \o name, lock)
        ELSE IF groups.state = "poisoned" THEN Panic(groups)
        ELSE IF g # 0 THEN Ok(GroupRoute(base, groups.val[g], name, parts, w.i), groups)
        ELSE DefaultRoute(e.lib, base, w.category, value, name, parts, w.i, groups)

Normalize_FragmentOnly(route) ==
    IF ~ContainsAny(route, {"#"}) /\ ~EndsWith(route, "/") THEN route \o "/" ELSE route

\* The trailing-slash rule of resolve.
Normalize(route) ==
    IF ~ContainsAny(route, {"#", "?"}) /\ ~EndsWith(route, "/") THEN route \o "/" ELSE route

WithTail(route, tail) == IF tail # "" THEN route \o "/" \o tail ELSE route

PassesThrough_FragmentOnly(link) == StartsWith(link, "#")

\* The links resolve returns as they are.
PassesThrough(link) == StartsWith(link, "#") \/ StartsWith(link, "http")

\* The rest of resolve once the head has a route: the `?` hands an error
\* to the caller, the tail is appended and the route normalised.
Finish(r, tail) ==
    IF r.st # "ok" THEN r ELSE Ok(Normalize(WithTail(r.val, tail)), r.lock)

resolve_DefinitionFirst(e, lock, link, base) ==
    LET sp == split_link(link)
        known == resolve_known(sp.head, base)
        def == resolve_definition(e, lock, sp.head, base)
    IN  IF PassesThrough(link) THEN Ok(link, lock)
        ELSE IF def.st = "ok" \/ ~known.some THEN Finish(def, sp.tail)
        ELSE Finish(Ok(known.route, lock), sp.tail)

\* Resolve an intra-doc link.
resolve(e, lock, link, base) ==
    LET sp == split_link(link)
        known == resolve_known(sp.head, base)
    IN  IF PassesThrough(link) THEN Ok(link, lock)
        ELSE IF known.some THEN Finish(Ok(known.route, lock), sp.tail)
        ELSE Finish(resolve_definition(e, lock, sp.head, base), sp.tail)

-----------------------------------------------------------------------------
(* CatKey, ROUTE_MAPS and route_of_value *)

UpperCase == "ABCDEFGHIJKLMNOPQRSTUVWXYZ"
LowerCase == "abcdefghijklmnopqrstuvwxyz"
Digits == "0123456789"

\* char::to_ascii_lowercase
ToAsciiLowercase(ch) ==
    LET k == Find(UpperCase, ch, 1)
    IN  IF k <= Len(UpperCase) THEN CharAt(LowerCase, k) ELSE ch

\* Turn a title into an URL fragment.
RECURSIVE urlify(_)
urlify(title) ==
    IF title = "" THEN ""
    ELSE LET ch == ToAsciiLowercase(CharAt(title, 1))
             out == IF Find(LowerCase, ch, 1) <= Len(LowerCase)
                       \/ Find(Digits, ch, 1) <= Len(Digits)
                    THEN ch ELSE "-"
         IN  out \o urlify(Slice(title, 2, Len(title)))

\* A Value as route_of_value sees it: its kind, and for a function its
\* representation, identity and name.
ValueOf(b) == [kind |-> b.kind, repr |-> b.repr, id |-> b.id, fname |-> b.fname]

\* CatKey::Func(func) or CatKey::Type(ty)
CatKey(v) == [kind |-> v.kind, repr |-> v.repr, id |-> v.id]

CatKeyEq_ByIdentity(a, b) == a.kind = b.kind /\ a.id = b.id

\* impl PartialEq for CatKey
CatKeyEq(a, b) ==
    IF a.kind = "func" /\ b.kind = "func"
    THEN \/ a.repr = "native" /\ b.repr = "native" /\ a.id = b.id
         \/ a.repr = "element" /\ b.repr = "element" /\ a.id = b.id
    ELSE IF a.kind = "type" /\ b.kind = "type" THEN a.id = b.id
    ELSE FALSE

\* HashMap::insert: the value of an equal key is replaced, any other key is added.
MapInsert(map, key, route) ==
    LET hits == {i \in 1..Len(map) : CatKeyEq(map[i].key, key)}
    IN  IF hits = {} THEN Append(map, [key |-> key, route |-> route])
        ELSE [i \in 1..Len(map) |-> IF i \in hits THEN [map[i] EXCEPT !.route = route]
                                    ELSE map[i]]

NoRoute == ""

\* HashMap::get
MapGet(map, key) ==
    LET hits == {i \in 1..Len(map) : CatKeyEq(map[i].key, key)}
    IN  IF hits = {} THEN NoRoute ELSE map[CHOOSE i \in hits : TRUE].route

\* An entry of scope_to_finds: (scope, parent_name, cat)
ToFind(scope, parent, cat) == [scope |-> scope, parent |-> parent, cat |-> cat]

\* The route of an ungrouped function or type in the index.
IndexRoute(cat, parent, name) ==
    IF parent # "" THEN "reference/" \o cat \o "/" \o parent \o "/#definitions-" \o name
    ELSE "reference/" \o cat \o "/" \o name \o "/"

VisitBinding_OwnFirst(e, item, bind, acc) ==
    LET cat == IF bind.cat # NoCat THEN bind.cat ELSE item.cat
        name == urlify(bind.name)
        groups == Force(acc.lock, e)
        g == FindGroup(groups.val, cat, bind.fname)
        pushed == [acc EXCEPT !.todo = Append(@, ToFind(bind.scope, name, cat))]
    IN  IF acc.panic THEN acc
        ELSE IF bind.kind = "func" THEN
            IF cat = NoCat
            THEN (IF bind.scope # NoScope THEN pushed ELSE acc)
            ELSE IF bind.fname = "" THEN acc
            ELSE IF groups.state = "poisoned"
            THEN [acc EXCEPT !.panic = TRUE, !.lock = groups]
            ELSE IF g # 0
            THEN [acc EXCEPT
                    !.lock = groups,
                    !.map = MapInsert(@, CatKey(bind),
                                "reference/" \o groups.val[g].category \o "/"
                                    \o groups.val[g].name \o "/#functions-" \o bind.fname)]
            ELSE [acc EXCEPT
                    !.lock = groups,
                    !.map = MapInsert(@, CatKey(bind), IndexRoute(cat, item.parent, bind.fname)),
                    !.todo = IF bind.scope # NoScope
                             THEN Append(@, ToFind(bind.scope, name, cat)) ELSE @]
        ELSE IF bind.kind = "type" THEN
            [pushed EXCEPT
                !.map = IF cat # NoCat
                        THEN MapInsert(@, CatKey(bind), IndexRoute(cat, item.parent, name))
                        ELSE @]
        ELSE IF bind.kind = "module" THEN pushed
        ELSE acc

\* One binding of the for loop over scope.iter(): acc is the map, the work
\* list and GROUPS so far.
VisitBinding(e, item, bind, acc) ==
    LET cat == IF item.cat # NoCat THEN item.cat ELSE bind.cat
        name == urlify(bind.name)
        groups == Force(acc.lock, e)
        g == FindGroup(groups.val, cat, bind.fname)
        pushed == [acc EXCEPT !.todo = Append(@, ToFind(bind.scope, name, cat))]
    IN  IF acc.panic THEN acc
        ELSE IF bind.kind = "func" THEN
            IF cat = NoCat
            THEN (IF bind.scope # NoScope THEN pushed ELSE acc)
            ELSE IF bind.fname = "" THEN acc
            ELSE IF groups.state = "poisoned"
            THEN [acc EXCEPT !.panic = TRUE, !.lock = groups]
            ELSE IF g # 0
            THEN [acc EXCEPT
                    !.lock = groups,
                    !.map = MapInsert(@, CatKey(bind),
                                "reference/" \o groups.val[g].category \o "/"
                                    \o groups.val[g].name \o "/#functions-" \o bind.fname)]
            ELSE [acc EXCEPT
                    !.lock = groups,
                    !.map = MapInsert(@, CatKey(bind), IndexRoute(cat, item.parent, bind.fname)),
                    !.todo = IF bind.scope # NoScope
                             THEN Append(@, ToFind(bind.scope, name, cat)) ELSE @]
        ELSE IF bind.kind = "type" THEN
            [pushed EXCEPT
                !.map = IF cat # NoCat
                        THEN MapInsert(@, CatKey(bind), IndexRoute(cat, item.parent, name))
                        ELSE @]
        ELSE IF bind.kind = "module" THEN pushed
        ELSE acc

RECURSIVE VisitScope(_, _, _, _, _)
VisitScope(e, item, sc, i, acc) ==
    IF i > Len(sc) THEN acc
    ELSE VisitScope(e, item, sc, i + 1, VisitBinding(e, item, sc[i], acc))

\* A turn that reads the last entry and leaves it on the work list.
PopAndVisit_Peek(e, map, todo, lock) ==
    LET item == todo[Len(todo)]
    IN  VisitScope(e, item, e.lib.scopes[item.scope], 1,
                   [map |-> map, todo |-> todo, lock |-> lock, panic |-> FALSE])

\* One turn of the while loop: pops the last entry and visits its scope.
PopAndVisit(e, map, todo, lock) ==
    LET item == todo[Len(todo)]
    IN  VisitScope(e, item, e.lib.scopes[item.scope], 1,
                   [map |-> map, todo |-> [i \in 1..(Len(todo) - 1) |-> todo[i]],
                    lock |-> lock, panic |-> FALSE])

\* The work list the build starts from.
Roots(lib) == << ToFind(lib.global, "", NoCat), ToFind(lib.math, "", NoCat) >>

UninitMaps == [state |-> "uninit", map |-> <<>>, todo |-> <<>>]

\* The values callers ask about: every function and type of the library,
\* a module, a plain value, and functions the library does not hold: a
\* user-defined closure named like a library function, a partially applied
\* library function, a native function and a type of another library.
LibValues(lib) ==
    UNION {{ValueOf(lib.scopes[sid][i]) : i \in 1..Len(lib.scopes[sid])} :
             sid \in DOMAIN lib.scopes}

OutsideValues ==
    { ValueOf(Closure("cite", "user", "cite", NoCat)),
      [kind |-> "func", repr |-> "with", id |-> "rgb", fname |-> "rgb"],
      ValueOf(Func("ext", "native", "ext", NoCat, {}, NoScope)),
      ValueOf(Type("str", NoCat, {}, "str")) }

Values(e) == LibValues(e.lib) \cup OutsideValues

NoValue == ValueOf(NoBinding)

Idle == [val |-> NoValue, pc |-> "idle", res |-> NoRoute]

NoEarlier == [val |-> NoValue, res |-> NoRoute]

-----------------------------------------------------------------------------
(* plain_docs_sentence *)

\* str::replace: every non-overlapping occurrence, left to right.
RECURSIVE Replace(_, _, _)
Replace(s, from, to) ==
    LET hits == {i \in 1..(Len(s) - Len(from) + 1) : Slice(s, i, i + Len(from) - 1) = from}
        k == CHOOSE i \in hits : \A j \in hits : i <= j
    IN  IF hits = {} THEN s
        ELSE Slice(s, 1, k - 1) \o to \o Replace(Slice(s, k + Len(from), Len(s)), from, to)

\* The grave accent that opens and closes inline code.  A TLA+ string cannot
\* hold that character: the apostrophe stands for it in every text of this model.
Backtick == "'"

\* The scanner's cursor counts the characters eaten so far.
\* Scanner::eat_until: the cursor stops before the next c, or at the end.
EatUntil(docs, cursor, c) == Find(docs, c, cursor + 1) - 1

\* Scanner::eat from a cursor: one character further, unless at the end.
Eat(docs, cursor) == IF cursor < Len(docs) THEN cursor + 1 ELSE cursor

\* The base of the links plain_docs_sentence resolves, and the URL of those it cannot.
DocsBase == "https://typst.app/docs/"

NotFoundUrl == "https://typst.app/docs/404.html"

From_WithParen(docs, start, cursor) == Slice(docs, start, cursor)

\* Scanner::from(start): the text between start and the cursor.
From(docs, start, cursor) == Slice(docs, start + 1, cursor)

Unwrap_KeepBraces(raw) == raw

\* The `{..}` or `[..]` wrapping of an inline-code span is dropped.
Unwrap(raw) ==
    IF \/ StartsWith(raw, "{") /\ EndsWith(raw, "}")
       \/ StartsWith(raw, "[") /\ EndsWith(raw, "]")
    THEN Slice(raw, 2, Len(raw) - 1)
    ELSE raw

\* The '`' arm.
ScanRaw(s, lock) ==
    LET c1 == s.cursor + 1
        c2 == EatUntil(s.docs, c1, Backtick)
        raw == Unwrap(From(s.docs, c1, c2))
    IN  [scan |-> [s EXCEPT !.cursor = Eat(s.docs, c2),
                            !.output = @ \o Backtick \o raw \o Backtick],
         lock |-> lock]

\* The '[' arm.
ScanOpen(s, lock) ==
    [scan |-> [s EXCEPT !.cursor = @ + 1, !.link = TRUE, !.output = @ \o "["],
     lock |-> lock]

LinkUrl_Unwrap(r) == r.val

\* .ok().unwrap_or_else(..): the route, or the not-found page.
LinkUrl(r) == IF r.st = "ok" THEN r.val ELSE NotFoundUrl

\* The link is written with the url resolve gave; r is resolve's result
\* and cursor the scanner's cursor after the ')'.
EmitLink(s, cursor, link_content, r) ==
    IF r.st = "panic"
    THEN [scan |-> [s EXCEPT !.pc = "panicked"], lock |-> r.lock]
    ELSE [scan |-> [s EXCEPT !.cursor = cursor,
                             !.link = FALSE,
                             !.output = @ \o "]" \o "(" \o LinkUrl(r) \o ")",
                             !.resolved = Append(@, [link |-> link_content, st |-> r.st])],
          lock |-> r.lock]

\* After an in-link ']': "(..)" is an intra-doc link.  cursor is the
\* scanner's cursor after the ']'.
ScanLink(e, s, lock) ==
    LET cursor == s.cursor + 1
        c2 == EatUntil(s.docs, cursor + 1, ")")
        link_content == From(s.docs, cursor + 1, c2)
    IN  EmitLink(s, Eat(s.docs, c2), link_content,
                 resolve(e, lock, link_content, DocsBase))

ScanReference_Resolved(e, s, lock) ==
    LET cursor == s.cursor + 1
        c2 == EatUntil(s.docs, cursor + 1, "]")
        link_content == From(s.docs, cursor + 1, c2)
    IN  EmitLink(s, Eat(s.docs, c2), link_content,
                 resolve(e, lock, link_content, DocsBase))

\* After an in-link ']': "[..]" is a reference-style link, copied as it is.
ScanReference(e, s, lock) ==
    LET cursor == s.cursor + 1
        c2 == Eat(s.docs, EatUntil(s.docs, cursor + 1, "]"))
    IN  [scan |-> [s EXCEPT !.cursor = c2,
                            !.link = FALSE,
                            !.output = @ \o "]" \o Slice(s.docs, cursor + 1, c2)],
         lock |-> lock]

\* The `']' if link` arm.
ScanClose(e, s, lock) ==
    LET next == CharAt(s.docs, s.cursor + 2)
    IN  IF next = "(" THEN ScanLink(e, s, lock)
        ELSE IF next = "[" THEN ScanReference(e, s, lock)
        ELSE [scan |-> [s EXCEPT !.cursor = @ + 1, !.link = FALSE, !.output = @ \o "]"],
              lock |-> lock]

\* The `_` arm.
ScanCopy(s, lock) ==
    [scan |-> [s EXCEPT !.cursor = @ + 1, !.output = @ \o CharAt(s.docs, s.cursor + 1)],
     lock |-> lock]

ScanChar_NoLinkGuard(e, s, lock) ==
    LET ch == CharAt(s.docs, s.cursor + 1)
    IN  IF ch = Backtick THEN ScanRaw(s, lock)
        ELSE IF ch = "[" THEN ScanOpen(s, lock)
        ELSE IF ch = "]" THEN ScanClose(e, s, lock)
        ELSE ScanCopy(s, lock)

\* One turn of the while loop of plain_docs_sentence, on the character at the cursor.
ScanChar(e, s, lock) ==
    LET ch == CharAt(s.docs, s.cursor + 1)
    IN  IF ch = Backtick THEN ScanRaw(s, lock)
        ELSE IF ch = "[" THEN ScanOpen(s, lock)
        ELSE IF ch = "]" /\ s.link THEN ScanClose(e, s, lock)
        ELSE ScanCopy(s, lock)

\* A call of plain_docs_sentence that has not run yet.
Called(docs) ==
    [input |-> docs, docs |-> "", cursor |-> 0, output |-> "", link |-> FALSE,
     pc |-> "called", resolved |-> <<>>, passes |-> <<>>]

NoScan == [Called("") EXCEPT !.pc = "none"]

-----------------------------------------------------------------------------
(* The three LazyLocks under concurrent first callers *)

LockNames == {"LIBRARY", "GROUPS", "ROUTE_MAPS"}

UninitLibrary == [state |-> "uninit"]

\* No initializer has run and none is running.
NoOnce == [l \in LockNames |-> [owner |-> 0, runs |-> 0]]

\* No Config is in use.
NoConfig == [pc |-> "none"]

\* The specifications of one caller: no other thread is there.
SingleCaller ==
    /\ LIBRARY = UninitLibrary
    /\ once = NoOnce
    /\ threads = <<>>
    /\ config = NoConfig

-----------------------------------------------------------------------------
(* The callers of resolve: links and bases *)

MaxParts == 3

\* The names the dotted heads are made of: bindings, parameters and one
\* name no scope binds.
PartNames(e) ==
    IF e.lib = LibStd THEN {"cite", "calc", "abs", "value", "nope"}
    ELSE {"std", "calc", "abs", "outline", "entry"}

RECURSIVE Dotted(_, _)
Dotted(names, n) ==
    IF n = 1 THEN names
    ELSE LET shorter == Dotted(names, n - 1)
         IN  shorter \cup {h \o "." \o p : h \in shorter, p \in names}

\* Heads that are no dotted path of PartNames, and paths into the other scopes.
OddHeads ==
    {"", "#f", "#", "http://e", "https://e/", "httpx", "mailto:a", "ftp://e/a",
     "cite", "$$cite", "$", "$cite.key", "$int.value", "$int.signum.value", "$rgb",
     "$color.rgb", "$sys.version", "$math.attach", "$math.attach.base", "$math.frac.num",
     "$outline.entry.level", "$outline.depth", "$std.calc.int.signum", "$std.cite.key",
     "$std.calc.tau"}

Heads(e) == KnownHeads \cup OddHeads \cup {"$" \o d : d \in Dotted(PartNames(e), MaxParts)}

Tails == {"", "/a", "//a/", "/#x"}

Links(e) == {h \o t : h \in Heads(e), t \in Tails}

Bases == {DocsBase, "", "/d?v="}

\* A call of resolve or resolve_definition that has not run yet.
Pending(op, link, base) ==
    [op |-> op, link |-> link, base |-> base, st |-> "pending", val |-> ""]

Calls(e) ==
    {Pending("resolve", link, base) : link \in Links(e), base \in Bases}
    \cup {Pending("resolve_definition", head, base) : head \in Heads(e), base \in Bases}

NoCall == [Pending("none", "", "") EXCEPT !.st = "none"]

Init ==
    /\ env \in EnvNames
    /\ GROUPS = Uninit
    /\ call \in Calls(Env)
    /\ ROUTE_MAPS = UninitMaps
    /\ query = Idle
    /\ earlier = NoEarlier
    /\ scan = NoScan
    /\ SingleCaller

\* Some other caller dereferences GROUPS first.
ForceGroups ==
    /\ GROUPS.state = "uninit"
    /\ GROUPS' = Force(GROUPS, Env)
    /\ UNCHANGED <<env, call, ROUTE_MAPS, query, earlier, scan, lazy>>

\* A caller resolves a link.
Resolve ==
    /\ call.op = "resolve"
    /\ call.st = "pending"
    /\ \E r \in {resolve(Env, GROUPS, call.link, call.base)} :
           /\ call' = [call EXCEPT !.st = r.st, !.val = r.val]
           /\ GROUPS' = r.lock
    /\ UNCHANGED <<env, ROUTE_MAPS, query, earlier, scan, lazy>>

\* resolve_definition on its own: the head of a link that is no known destination.
ResolveDefinition ==
    /\ call.op = "resolve_definition"
    /\ call.st = "pending"
    /\ \E r \in {resolve_definition(Env, GROUPS, call.link, call.base)} :
           /\ call' = [call EXCEPT !.st = r.st, !.val = r.val]
           /\ GROUPS' = r.lock
    /\ UNCHANGED <<env, ROUTE_MAPS, query, earlier, scan, lazy>>

Next == ForceGroups \/ Resolve \/ ResolveDefinition

Spec == Init /\ [][Next]_vars

-----------------------------------------------------------------------------
(* The callers of route_of_value *)

InitIndex ==
    /\ env \in EnvNames
    /\ GROUPS = Uninit
    /\ call = NoCall
    /\ ROUTE_MAPS = UninitMaps
    /\ query = Idle
    /\ earlier = NoEarlier
    /\ scan = NoScan
    /\ SingleCaller

RouteOfValue_Rebuilding ==
    /\ query.pc \in {"idle", "returned"}
    /\ \E val \in Values(Env) :
        IF val.kind \notin {"func", "type"}
        THEN /\ query' = [val |-> val, pc |-> "returned", res |-> NoRoute]
             /\ UNCHANGED ROUTE_MAPS
        ELSE IF ROUTE_MAPS.state \in {"uninit", "init"}
        THEN /\ query' = [val |-> val, pc |-> "building", res |-> NoRoute]
             /\ ROUTE_MAPS' = [state |-> "building", map |-> <<>>,
                               todo |-> Roots(Env.lib)]
        ELSE /\ query' = [val |-> val, pc |-> "panicked", res |-> NoRoute]
             /\ UNCHANGED ROUTE_MAPS
    /\ earlier' \in IF query.pc = "returned"
                    THEN {earlier, [val |-> query.val, res |-> query.res]}
                    ELSE {earlier}
    /\ UNCHANGED <<env, GROUPS, call, scan, lazy>>

\* Get the route of a value: a caller asks about val.  The key is built
\* first; ROUTE_MAPS is dereferenced only for a function or a type, and its
\* first dereference starts the build.
RouteOfValue ==
    /\ query.pc \in {"idle", "returned"}
    /\ \E val \in Values(Env) :
        LET key == CatKey(val)
        IN  IF val.kind \notin {"func", "type"}
            THEN /\ query' = [val |-> val, pc |-> "returned", res |-> NoRoute]
                 /\ UNCHANGED ROUTE_MAPS
            ELSE IF ROUTE_MAPS.state = "init"
            THEN /\ query' = [val |-> val, pc |-> "returned",
                              res |-> MapGet(ROUTE_MAPS.map, key)]
                 /\ UNCHANGED ROUTE_MAPS
            ELSE IF ROUTE_MAPS.state = "uninit"
            THEN /\ query' = [val |-> val, pc |-> "building", res |-> NoRoute]
                 /\ ROUTE_MAPS' = [state |-> "building", map |-> <<>>,
                                   todo |-> Roots(Env.lib)]
            ELSE /\ query' = [val |-> val, pc |-> "panicked", res |-> NoRoute]
                 /\ UNCHANGED ROUTE_MAPS
    /\ earlier' \in IF query.pc = "returned"
                    THEN {earlier, [val |-> query.val, res |-> query.res]}
                    ELSE {earlier}
    /\ UNCHANGED <<env, GROUPS, call, scan, lazy>>

\* The initializer of ROUTE_MAPS, one turn of its while loop.
RouteMapsStep ==
    /\ ROUTE_MAPS.state = "building"
    /\ ROUTE_MAPS.todo # <<>>
    /\ LET r == PopAndVisit(Env, ROUTE_MAPS.map, ROUTE_MAPS.todo, GROUPS)
       IN  /\ GROUPS' = r.lock
           /\ IF r.panic
              THEN /\ ROUTE_MAPS' = [state |-> "poisoned", map |-> <<>>, todo |-> <<>>]
                   /\ query' = [query EXCEPT !.pc = "panicked"]
              ELSE /\ ROUTE_MAPS' = [ROUTE_MAPS EXCEPT !.map = r.map, !.todo = r.todo]
                   /\ UNCHANGED query
    /\ UNCHANGED <<env, call, earlier, scan, lazy>>

\* The work list is empty: the map becomes the value of ROUTE_MAPS and the
\* caller that started the build gets its route.
RouteMapsReady ==
    /\ ROUTE_MAPS.state = "building"
    /\ ROUTE_MAPS.todo = <<>>
    /\ ROUTE_MAPS' = [ROUTE_MAPS EXCEPT !.state = "init"]
    /\ query' = [query EXCEPT !.pc = "returned",
                              !.res = MapGet(ROUTE_MAPS.map, CatKey(query.val))]
    /\ UNCHANGED <<env, GROUPS, call, earlier, scan, lazy>>

NextIndex == ForceGroups \/ RouteOfValue \/ RouteMapsStep \/ RouteMapsReady

SpecIndex == InitIndex /\ [][NextIndex]_vars

-----------------------------------------------------------------------------
(* The callers of plain_docs_sentence *)

MaxFrags == 4

\* The pieces the documentation texts are made of.
DocFrags == {"[a]", "(t)", "($cite)", "[", "]", "(", "'", "'''example"}

RECURSIVE Texts(_)
Texts(n) ==
    IF n = 0 THEN {""}
    ELSE LET shorter == Texts(n - 1)
         IN  shorter \cup {t \o f : t \in shorter, f \in DocFrags}

DocEnvs == {"std", "nest"}

InitDocs ==
    /\ env \in DocEnvs
    /\ GROUPS = Uninit
    /\ call = NoCall
    /\ ROUTE_MAPS = UninitMaps
    /\ query = Idle
    /\ earlier = NoEarlier
    /\ scan \in {Called(docs) : docs \in Texts(MaxFrags)}
    /\ SingleCaller

\* plain_docs_sentence is entered: the example fences are renamed and the
\* scanner is put at the start.
PlainDocsEnter ==
    /\ scan.pc = "called"
    /\ scan' = [scan EXCEPT !.docs = Replace(scan.input, "'''example", "'''typ"),
                            !.pc = "scanning"]
    /\ UNCHANGED <<env, GROUPS, call, ROUTE_MAPS, query, earlier, lazy>>

\* One turn of the while loop.
PlainDocsStep ==
    /\ scan.pc = "scanning"
    /\ scan.cursor < Len(scan.docs)
    /\ \E r \in {ScanChar(Env, scan, GROUPS)} :
           /\ scan' = r.scan
           /\ GROUPS' = r.lock
    /\ UNCHANGED <<env, call, ROUTE_MAPS, query, earlier, lazy>>

\* scanner.eat() is None: the output is returned.
PlainDocsReturn ==
    /\ scan.pc = "scanning"
    /\ scan.cursor >= Len(scan.docs)
    /\ scan' = [scan EXCEPT !.pc = "returned"]
    /\ UNCHANGED <<env, GROUPS, call, ROUTE_MAPS, query, earlier, lazy>>

NextDocs == PlainDocsEnter \/ PlainDocsStep \/ PlainDocsReturn

SpecDocs == InitDocs /\ [][NextDocs]_vars

-----------------------------------------------------------------------------
(* plain_docs_sentence on its own output *)

\* The pieces of texts with inline code: the grave accent, wrappings, a
\* label, a link that resolves and one that does not, and an example fence
\* short of one grave accent.
SpanFrags == {"'", "{", "}", "{{a}}", "[a]", "($cite)", "(t)", "''example"}

RECURSIVE SpanTexts(_)
SpanTexts(n) ==
    IF n = 0 THEN {""}
    ELSE LET shorter == SpanTexts(n - 1)
         IN  shorter \cup {t \o f : t \in shorter, f \in SpanFrags}

InitPasses ==
    /\ env = "std"
    /\ GROUPS = Uninit
    /\ call = NoCall
    /\ ROUTE_MAPS = UninitMaps
    /\ query = Idle
    /\ earlier = NoEarlier
    /\ scan \in {Called(docs) : docs \in SpanTexts(MaxFrags)}
    /\ SingleCaller

\* The caller hands the text it got back to plain_docs_sentence.
PlainDocsAgain ==
    /\ scan.pc = "returned"
    /\ scan.passes = <<>>
    /\ scan' = [Called(scan.output) EXCEPT
                   !.passes = << [input |-> scan.input, output |-> scan.output] >>]
    /\ UNCHANGED <<env, GROUPS, call, ROUTE_MAPS, query, earlier, lazy>>

NextPasses == PlainDocsEnter \/ PlainDocsStep \/ PlainDocsReturn \/ PlainDocsAgain

SpecPasses == InitPasses /\ [][NextPasses]_vars

-----------------------------------------------------------------------------
(* Concurrent first callers of resolve_definition and route_of_value *)

NCallers == 2

Callers == 1..NCallers

NotSeen == [state |-> "none"]

\* A thread in a call: the initializers it is running, innermost last, and
\* what it has read through each lock.
Thread(op) ==
    [op |-> op, pc |-> "running", stack |-> <<>>,
     seen |-> [l \in LockNames |-> NotSeen]]

\* What a dereference of the lock reads now.
LockValue(l) ==
    CASE l = "LIBRARY"    -> LIBRARY
      [] l = "GROUPS"     -> GROUPS
      [] l = "ROUTE_MAPS" -> ROUTE_MAPS

SetLock(l, v) ==
    /\ LIBRARY' = IF l = "LIBRARY" THEN v ELSE LIBRARY
    /\ GROUPS' = IF l = "GROUPS" THEN v ELSE GROUPS
    /\ ROUTE_MAPS' = IF l = "ROUTE_MAPS" THEN v ELSE ROUTE_MAPS

\* The lock after its initializer panicked.
Poisoned(l) ==
    CASE l = "LIBRARY"    -> [state |-> "poisoned"]
      [] l = "GROUPS"     -> [state |-> "poisoned", val |-> <<>>]
      [] l = "ROUTE_MAPS" -> [state |-> "poisoned", map |-> <<>>, todo |-> <<>>]

\* A panic in the thread: it unwinds through the initializers it is
\* running, each of their locks is poisoned, and the call is over.
Unwind(t) ==
    LET running == {threads[t].stack[i] : i \in 1..Len(threads[t].stack)}
    IN  /\ LIBRARY' = IF "LIBRARY" \in running THEN Poisoned("LIBRARY") ELSE LIBRARY
        /\ GROUPS' = IF "GROUPS" \in running THEN Poisoned("GROUPS") ELSE GROUPS
        /\ ROUTE_MAPS' = IF "ROUTE_MAPS" \in running THEN Poisoned("ROUTE_MAPS")
                         ELSE ROUTE_MAPS
        /\ once' = [l \in LockNames |->
                      IF l \in running THEN [once[l] EXCEPT !.owner = 0] ELSE once[l]]
        /\ threads' = [threads EXCEPT ![t].pc = "panicked", ![t].stack = <<>>]

MustBuild_RetryPoisoned(lock) == lock.state \in {"uninit", "poisoned"}

MustBuild_Unsynchronised(lock) == lock.state \in {"uninit", "building"}

\* LazyLock: the first dereference runs the initializer.
MustBuild(lock) == lock.state = "uninit"

CanObserve_WhileBuilding(lock) == lock.state \in {"init", "building"}

\* LazyLock: a dereference returns the value once the initializer is done.
CanObserve(lock) == lock.state = "init"

\* The initializer's value as it starts.
Building(l) ==
    CASE l = "LIBRARY"    -> [state |-> "building"]
      [] l = "GROUPS"     -> [state |-> "building", val |-> <<>>]
      [] l = "ROUTE_MAPS" -> [state |-> "building", map |-> <<>>, todo |-> Roots(Env.lib)]

\* The visit of the scope of a work-list entry reads GROUPS: it holds a
\* named function that has a category.
NeedsGroups(e, item) ==
    \E i \in 1..Len(e.lib.scopes[item.scope]) :
        LET b == e.lib.scopes[item.scope][i]
        IN  /\ b.kind = "func"
            /\ (item.cat # NoCat \/ b.cat # NoCat)
            /\ b.fname # ""

\* The initializer the thread is in, "" when it is in none.
Top(th) == IF th.stack = <<>> THEN "" ELSE th.stack[Len(th.stack)]

\* The lock the thread dereferences next and has not read yet, "" when its
\* next step needs none.
Need(t) ==
    LET th == threads[t]
        unseen(l) == th.seen[l].state = "none"
    IN  IF th.pc # "running" THEN ""
        ELSE IF Top(th) = "" /\ th.op = "resolve_definition"
        THEN (IF unseen("LIBRARY") THEN "LIBRARY"
              ELSE IF unseen("GROUPS") THEN "GROUPS" ELSE "")
        ELSE IF Top(th) = ""
        THEN (IF unseen("ROUTE_MAPS") THEN "ROUTE_MAPS" ELSE "")
        ELSE IF Top(th) = "GROUPS"
        THEN (IF /\ Len(GROUPS.val) < Len(Env.yml)
                 /\ Env.yml[Len(GROUPS.val) + 1].filter = <<>>
                 /\ unseen("LIBRARY")
              THEN "LIBRARY" ELSE "")
        ELSE IF Top(th) = "ROUTE_MAPS"
        THEN (IF unseen("LIBRARY") THEN "LIBRARY"
              ELSE IF /\ ROUTE_MAPS.todo # <<>>
                      /\ NeedsGroups(Env, ROUTE_MAPS.todo[Len(ROUTE_MAPS.todo)])
                      /\ unseen("GROUPS")
              THEN "GROUPS" ELSE "")
        ELSE ""

\* The initializer the thread is in has nothing left to do.
BodyDone(l) ==
    CASE l = "LIBRARY"    -> TRUE
      [] l = "GROUPS"     -> Len(GROUPS.val) = Len(Env.yml)
      [] l = "ROUTE_MAPS" -> ROUTE_MAPS.todo = <<>>

InitLazy ==
    /\ env \in EnvNames
    /\ GROUPS = Uninit
    /\ call = NoCall
    /\ ROUTE_MAPS = UninitMaps
    /\ query = Idle
    /\ earlier = NoEarlier
    /\ scan = NoScan
    /\ LIBRARY = UninitLibrary
    /\ once = NoOnce
    /\ threads \in [Callers -> {Thread("resolve_definition"), Thread("route_of_value")}]
    /\ config = NoConfig

\* The thread is the first to dereference the lock: it runs the initializer.
LazyStart(t) ==
    /\ Need(t) # ""
    /\ MustBuild(LockValue(Need(t)))
    /\ once' = [once EXCEPT ![Need(t)] = [owner |-> t, runs |-> @.runs + 1]]
    /\ SetLock(Need(t), Building(Need(t)))
    /\ threads' = [threads EXCEPT ![t].stack = Append(@, Need(t))]
    /\ UNCHANGED <<config, env, call, query, earlier, scan>>

\* The lock holds its value: the thread reads it.
LazyObserve(t) ==
    /\ Need(t) # ""
    /\ CanObserve(LockValue(Need(t)))
    /\ threads' = [threads EXCEPT ![t].seen[Need(t)] = LockValue(Need(t))]
    /\ UNCHANGED <<config, env, GROUPS, call, ROUTE_MAPS, query, earlier, scan, LIBRARY, once>>

\* One group filled by the initializer of GROUPS.
LazyFillGroup(t) ==
    /\ Top(threads[t]) = "GROUPS"
    /\ Need(t) = ""
    /\ ~BodyDone("GROUPS")
    /\ \E f \in {FillGroup(Env.lib, Env.yml[Len(GROUPS.val) + 1])} :
          IF f.ok
          THEN /\ GROUPS' = [GROUPS EXCEPT !.val = Append(@, f.group)]
               /\ UNCHANGED <<ROUTE_MAPS, LIBRARY, once, threads>>
          ELSE Unwind(t)
    /\ UNCHANGED <<config, env, call, query, earlier, scan>>

\* One turn of the while loop of the initializer of ROUTE_MAPS.
LazyVisit(t) ==
    /\ Top(threads[t]) = "ROUTE_MAPS"
    /\ Need(t) = ""
    /\ ~BodyDone("ROUTE_MAPS")
    /\ \E r \in {PopAndVisit(Env, ROUTE_MAPS.map, ROUTE_MAPS.todo, GROUPS)} :
          ROUTE_MAPS' = [ROUTE_MAPS EXCEPT !.map = r.map, !.todo = r.todo]
    /\ UNCHANGED <<config, env, GROUPS, call, query, earlier, scan, LIBRARY, once, threads>>

\* The initializer returns: the lock holds its value from now on.
LazyFinish(t) ==
    /\ Top(threads[t]) # ""
    /\ Need(t) = ""
    /\ BodyDone(Top(threads[t]))
    /\ \E l \in {Top(threads[t])} :
        \E v \in {[LockValue(l) EXCEPT !.state = "init"]} :
          /\ SetLock(l, v)
          /\ once' = [once EXCEPT ![l].owner = 0]
          /\ threads' = [threads EXCEPT
                ![t].stack = [i \in 1..(Len(@) - 1) |-> @[i]],
                ![t].seen[l] = v]
    /\ UNCHANGED <<config, env, call, query, earlier, scan>>

\* The lock is poisoned: the dereference panics.
LazyPanic(t) ==
    /\ Need(t) # ""
    /\ LockValue(Need(t)).state = "poisoned"
    /\ Unwind(t)
    /\ UNCHANGED <<config, env, call, query, earlier, scan>>

\* The call returns.
LazyReturn(t) ==
    /\ threads[t].pc = "running"
    /\ Top(threads[t]) = ""
    /\ Need(t) = ""
    /\ threads' = [threads EXCEPT ![t].pc = "returned"]
    /\ UNCHANGED <<config, env, GROUPS, call, ROUTE_MAPS, query, earlier, scan, LIBRARY, once>>

NextLazy ==
    \E t \in Callers :
        \/ LazyStart(t)
        \/ LazyObserve(t)
        \/ LazyFillGroup(t)
        \/ LazyVisit(t)
        \/ LazyFinish(t)
        \/ LazyPanic(t)
        \/ LazyReturn(t)

SpecLazy == InitLazy /\ [][NextLazy]_vars

-----------------------------------------------------------------------------
(* Config and CompileConfig of crates/tinymist/src/init.rs: the fields     *)
(* that "exportPdf", "compileStatus", "typstExtraArgs", "systemFonts" and  *)
(* "rootPath" set, and the font options.  An Option is a record with the   *)
(* flag some.                                                              *)

None == [some |-> FALSE, val |-> ""]
Some(x) == [some |-> TRUE, val |-> x]
NoneBool == [some |-> FALSE, val |-> FALSE]
SomeBool(b) == [some |-> TRUE, val |-> b]

\* serde_json::Value: a string, a boolean, an array of strings, a number, or
\* no value under the key.
Absent == [t |-> "absent", s |-> "", b |-> FALSE, a |-> <<>>]
JStr(x) == [t |-> "str", s |-> x, b |-> FALSE, a |-> <<>>]
JBool(x) == [t |-> "bool", s |-> "", b |-> x, a |-> <<>>]
JArr(x) == [t |-> "arr", s |-> "", b |-> FALSE, a |-> x]
JNum == [t |-> "num", s |-> "", b |-> FALSE, a |-> <<>>]

\* update.get(key)?.as_str() and update.get(key)?.as_bool()
as_str(j) == IF j.t = "str" THEN Some(j.s) ELSE None
as_bool(j) == IF j.t = "bool" THEN SomeBool(j.b) ELSE NoneBool

\* The keys of a configuration map that the model reads.
ConfigKeys == {"exportPdf", "compileStatus", "typstExtraArgs", "systemFonts", "rootPath"}

\* Map<String, JsonValue>: the value under each key, Absent for a missing key.
EmptyMap == [k \in ConfigKeys |-> Absent]
Put(m, k, v) == [m EXCEPT ![k] = v]

\* TaskWhen::default()
TaskWhenDefault == "never"

\* deser_or_default!("exportPdf", TaskWhen)
DeserTaskWhen(j) ==
    IF j.t = "str" /\ j.s \in {"never", "onSave", "onType"} THEN j.s ELSE TaskWhenDefault

\* CompileExtraOpts and Option<CompileExtraOpts>::None
NoExtraOpts ==
    [some |-> FALSE, entry |-> None, root_dir |-> None, ignore_system_fonts |-> FALSE]

\* CompileConfig::default() with the font options given to Config::new.
DefaultConfig(ignore_system_fonts) ==
    [ export_pdf |-> TaskWhenDefault,
      notify_status |-> FALSE,
      typst_extra_args |-> NoExtraOpts,
      system_fonts |-> NoneBool,
      root_path |-> None,
      entry |-> None,
      font_opts |-> [ignore_system_fonts |-> ignore_system_fonts] ]

CfgOk(c) == [st |-> "ok", msg |-> "", cfg |-> c]
CfgErr(c, msg) == [st |-> "err", msg |-> msg, cfg |-> c]

\* CompileOnceArgs::try_parse_from on the extra arguments: one optional
\* positional input, --root DIR and --ignore-system-fonts.
NoCommand == [input |-> None, root |-> None, ignore_system_fonts |-> FALSE]

RECURSIVE ParseArgs(_, _, _)
ParseArgs(args, i, cmd) ==
    IF i > Len(args) THEN [st |-> "ok", cmd |-> cmd]
    ELSE IF args[i] = "--ignore-system-fonts"
         THEN ParseArgs(args, i + 1, [cmd EXCEPT !.ignore_system_fonts = TRUE])
    ELSE IF args[i] = "--root"
         THEN IF i = Len(args) THEN [st |-> "err", cmd |-> cmd]
              ELSE ParseArgs(args, i + 2, [cmd EXCEPT !.root = Some(args[i + 1])])
    ELSE IF StartsWith(args[i], "-") \/ cmd.input.some
         THEN [st |-> "err", cmd |-> cmd]    \* "unexpected argument"
    ELSE ParseArgs(args, i + 1, [cmd EXCEPT !.input = Some(args[i])])

try_parse_from(args) == ParseArgs(args, 1, NoCommand)

\* CompileConfig::validate: EntryResolver::validate rejects a root that is
\* not an absolute path.
validate(c) ==
    IF c.root_path.some /\ ~StartsWith(c.root_path.val, "/")
    THEN CfgErr(c, "rootPath or typstExtraArgs.root must be an absolute path")
    ELSE CfgOk(c)

\* CompileConfig::update_by_map: every field is assigned in the order of the
\* code, and a bail! leaves the fields assigned before it.
compile_update_by_map(c, m) ==
    LET c1 == [c EXCEPT !.export_pdf = DeserTaskWhen(m["exportPdf"])]
        status == as_str(m["compileStatus"])
        c2 == [c1 EXCEPT !.notify_status = status.some /\ status.val = "enable"]
        typst_args == m["typstExtraArgs"]
        command == try_parse_from(IF typst_args.t = "arr" THEN typst_args.a ELSE <<>>)
        extra == [ some |-> TRUE,
                   entry |-> command.cmd.input,
                   root_dir |-> command.cmd.root,
                   ignore_system_fonts |-> command.cmd.ignore_system_fonts ]
        root == as_str(m["rootPath"])
        c3 == [c2 EXCEPT !.typst_extra_args = extra,
                         !.system_fonts = as_bool(m["systemFonts"]),
                         !.root_path = IF root.some THEN root ELSE extra.root_dir,
                         !.entry = extra.entry]
    IN  IF status.some /\ status.val \notin {"enable", "disable"}
        THEN CfgErr(c1, "compileStatus must be either 'enable' or 'disable'")
        ELSE IF typst_args.t \notin {"absent", "arr"} \/ command.st = "err"
        THEN CfgErr(c2, "failed to parse typstExtraArgs")
        ELSE validate(c3)

\* An update that keeps the export_pdf it finds when the map has no "exportPdf".
update_by_map_Keeping(c, m) ==
    LET r == compile_update_by_map(c, m)
    IN  IF r.st = "err" THEN r
        ELSE validate(IF m["exportPdf"].t = "absent"
                      THEN [r.cfg EXCEPT !.export_pdf = c.export_pdf] ELSE r.cfg)

\* Config::update_by_map
update_by_map_Toggling(c, m) ==
    LET r == compile_update_by_map(c, m)
    IN  IF r.st = "err" THEN r
        ELSE validate([r.cfg EXCEPT !.notify_status = ~c.notify_status])

update_by_map(c, m) ==
    LET r == compile_update_by_map(c, m)
    IN  IF r.st = "err" THEN r ELSE validate(r.cfg)

\* An update that hands back the config it got when it fails.
update_RollingBack(c, u) ==
    IF ~u.object THEN CfgErr(c, "got invalid configuration object")
    ELSE LET r == update_by_map(c, u.top)
             n == update_by_map(r.cfg, u.tinymist.o)
         IN  IF r.st = "err" THEN CfgErr(c, r.msg)
             ELSE IF u.tinymist.t # "obj" THEN r
             ELSE IF n.st = "err" THEN CfgErr(c, n.msg)
             ELSE n

\* Config::update.  The update is a JSON value: an object or not; the object
\* is its map and what it has under "tinymist" (nothing, an object, or other).
update(c, u) ==
    IF ~u.object THEN CfgErr(c, "got invalid configuration object")
    ELSE LET r == update_by_map(c, u.top)
         IN  IF r.st = "err" THEN r
             ELSE IF u.tinymist.t = "obj" THEN update_by_map(r.cfg, u.tinymist.o)
             ELSE r

\* CompileConfig::determine_font_opts, the ignore_system_fonts option.
determine_font_opts_ArgsFirst(c) ==
    [ignore_system_fonts |->
        IF c.typst_extra_args.some THEN c.typst_extra_args.ignore_system_fonts
        ELSE IF c.system_fonts.some THEN ~c.system_fonts.val
        ELSE c.font_opts.ignore_system_fonts]

determine_font_opts(c) ==
    LET system_fonts ==
            IF c.system_fonts.some THEN c.system_fonts
            ELSE IF c.typst_extra_args.some
                 THEN SomeBool(~c.typst_extra_args.ignore_system_fonts)
                 ELSE NoneBool
    IN  [ignore_system_fonts |->
            IF system_fonts.some THEN ~system_fonts.val
            ELSE c.font_opts.ignore_system_fonts]

-----------------------------------------------------------------------------
(* The callers of Config::update and determine_font_opts *)

\* The values an update has under a key.
KeyValues(k) ==
    CASE k = "exportPdf" -> {JStr("onSave"), JStr("onType"), JNum}
      [] k = "compileStatus" -> {JStr("enable"), JStr("on")}
      [] k = "typstExtraArgs" -> { JArr(<<"main.typ">>), JArr(<<"main.typ", "main.typ">>),
                                   JArr(<<"--ignore-system-fonts">>), JArr(<<"--root", ".">>) }
      [] k = "systemFonts" -> {JBool(TRUE), JBool(FALSE)}
      [] k = "rootPath" -> {JStr("/w"), JStr(".")}

\* The maps with no key, one key, or two keys.
OneKey == UNION {{Put(EmptyMap, k, v) : v \in KeyValues(k)} : k \in ConfigKeys}
Overlay(a, b) == [k \in ConfigKeys |-> IF b[k].t # "absent" THEN b[k] ELSE a[k]]
Maps == {Overlay(a, b) : a, b \in OneKey \cup {EmptyMap}}

NoTinymist == [t |-> "absent", o |-> EmptyMap]
Object(top, tinymist) == [object |-> TRUE, top |-> top, tinymist |-> tinymist]
NotObject == [object |-> FALSE, top |-> EmptyMap, tinymist |-> NoTinymist]

Updates ==
    {NotObject} \cup
    {Object(top, ns) : top \in Maps,
                       ns \in {NoTinymist, [t |-> "other", o |-> EmptyMap]}
                              \cup {[t |-> "obj", o |-> m] : m \in Maps}}

\* What the config went through before the update: nothing (the update before
\* is rejected whole), an update that bails half way, an update that sets
\* every field.
Seeds ==
    { NotObject,
      Object(Put(Put(EmptyMap, "exportPdf", JStr("onSave")), "compileStatus", JStr("on")),
             NoTinymist),
      Object(Put(Put(Put(Put(EmptyMap, "exportPdf", JStr("onType")),
                         "compileStatus", JStr("enable")),
                     "typstExtraArgs",
                     JArr(<<"--root", "/r", "main2.typ", "--ignore-system-fonts">>)),
                 "systemFonts", JBool(FALSE)),
             NoTinymist) }

NoOpts == [some |-> FALSE, ignore_system_fonts |-> FALSE]
NoResult == [st |-> "none", msg |-> ""]
NoFirst == [st |-> "none", cfg |-> DefaultConfig(FALSE)]

InitConfig ==
    /\ env = "std"
    /\ GROUPS = Uninit
    /\ call = NoCall
    /\ ROUTE_MAPS = UninitMaps
    /\ query = Idle
    /\ earlier = NoEarlier
    /\ scan = NoScan
    /\ LIBRARY = UninitLibrary
    /\ once = NoOnce
    /\ threads = <<>>
    /\ config \in { [ pc |-> "new", seed |-> s, update |-> u,
                      cfg |-> DefaultConfig(f), before |-> DefaultConfig(f),
                      res |-> NoResult, first |-> NoFirst, opts |-> NoOpts ]
                    : s \in Seeds, u \in Updates, f \in BOOLEAN }

\* config.update(..): the seed, then the update, then the same update again.
ConfigUpdate ==
    /\ config.pc \in {"new", "seeded", "once"}
    /\ \E r \in {update(config.cfg, IF config.pc = "new" THEN config.seed ELSE config.update)} :
          config' = [config EXCEPT
                        !.pc = CASE config.pc = "new" -> "seeded"
                                 [] config.pc = "seeded" -> "once"
                                 [] config.pc = "once" -> "twice",
                        !.before = config.cfg,
                        !.cfg = r.cfg,
                        !.res = [st |-> r.st, msg |-> r.msg],
                        !.first = IF config.pc = "seeded" THEN [st |-> r.st, cfg |-> r.cfg]
                                  ELSE @,
                        !.opts = NoOpts]
    /\ UNCHANGED <<env, GROUPS, call, ROUTE_MAPS, query, earlier, scan, LIBRARY, once, threads>>

\* config.compile.determine_font_opts()
ConfigDetermineFontOpts ==
    /\ config.pc # "none"
    /\ ~config.opts.some
    /\ \E o \in {determine_font_opts(config.cfg)} :
          config' = [config EXCEPT !.opts = [some |-> TRUE,
                                             ignore_system_fonts |-> o.ignore_system_fonts]]
    /\ UNCHANGED <<env, GROUPS, call, ROUTE_MAPS, query, earlier, scan, LIBRARY, once, threads>>

NextConfig ==
    \/ ConfigUpdate
    \/ ConfigDetermineFontOpts

SpecConfig == InitConfig /\ [][NextConfig]_vars

-----------------------------------------------------------------------------
(* The ROUTE_MAPS build under any traversal order *)

Reversed(seq) == [i \in 1..Len(seq) |-> seq[Len(seq) + 1 - i]]

Without(seq, j) == [i \in 1..(Len(seq) - 1) |-> IF i < j THEN seq[i] ELSE seq[i + 1]]

\* One turn of the while loop that takes entry j of the work list and goes
\* through its scope forwards or backwards.
VisitIn(e, map, todo, lock, j, backwards) ==
    VisitScope(e, todo[j],
               IF backwards THEN Reversed(e.lib.scopes[todo[j].scope])
               ELSE e.lib.scopes[todo[j].scope],
               1, [map |-> map, todo |-> Without(todo, j), lock |-> lock, panic |-> FALSE])

\* The map the code builds: the last entry is popped, scopes go forwards.
RECURSIVE BuildAll(_, _, _, _)
BuildAll(e, map, todo, lock) ==
    IF todo = <<>> THEN map
    ELSE LET r == PopAndVisit(e, map, todo, lock)
         IN  IF r.panic THEN <<>> ELSE BuildAll(e, r.map, r.todo, r.lock)

\* The initializer has made the work list of the two roots.
InitOrder ==
    /\ env \in EnvNames
    /\ GROUPS = Uninit
    /\ call = NoCall
    /\ ROUTE_MAPS = [state |-> "building", map |-> <<>>, todo |-> Roots(Env.lib)]
    /\ query = Idle
    /\ earlier = NoEarlier
    /\ scan = NoScan
    /\ SingleCaller

OrderVisit ==
    /\ ROUTE_MAPS.state = "building"
    /\ ROUTE_MAPS.todo # <<>>
    /\ \E j \in 1..Len(ROUTE_MAPS.todo), backwards \in BOOLEAN :
          \E r \in {VisitIn(Env, ROUTE_MAPS.map, ROUTE_MAPS.todo, GROUPS, j, backwards)} :
              /\ GROUPS' = r.lock
              /\ ROUTE_MAPS' = IF r.panic
                               THEN [state |-> "poisoned", map |-> <<>>, todo |-> <<>>]
                               ELSE [ROUTE_MAPS EXCEPT !.map = r.map, !.todo = r.todo]
    /\ UNCHANGED <<env, call, query, earlier, scan, lazy>>

OrderReady ==
    /\ ROUTE_MAPS.state = "building"
    /\ ROUTE_MAPS.todo = <<>>
    /\ ROUTE_MAPS' = [ROUTE_MAPS EXCEPT !.state = "init"]
    /\ UNCHANGED <<env, GROUPS, call, query, earlier, scan, lazy>>

NextOrder == OrderVisit \/ OrderReady

SpecOrder == InitOrder /\ [][NextOrder]_vars

-----------------------------------------------------------------------------
(* Properties of resolve and resolve_definition, checked under Spec *)

Returned(op) == call.op = op /\ call.st # "pending"

Letters == "abcdefghijklmnopqrstuvwxyzABCDEFGHIJKLMNOPQRSTUVWXYZ"

IsLetter(c) == \E i \in 1..Len(Letters) : CharAt(Letters, i) = c

\* A URL scheme: one or more letters followed by a colon.
HasUrlScheme(s) ==
    \E k \in 2..Len(s) :
        /\ CharAt(s, k) = ":"
        /\ \A i \in 1..(k - 1) : IsLetter(CharAt(s, i))

\* C1 as stated: every link that starts with '#' or with a URL scheme is
\* returned unchanged by resolve, for every base.
C1_AnySchemeUnchanged ==
    (Returned("resolve") /\ (StartsWith(call.link, "#") \/ HasUrlScheme(call.link)))
        => (call.st = "ok" /\ call.val = call.link)

\* C1 amended: every link that starts with '#' or with the text "http" is
\* returned unchanged by resolve, for every base: no tail handling and no
\* trailing slash.
C1_HttpOrFragmentUnchanged ==
    (Returned("resolve") /\ (StartsWith(call.link, "#") \/ StartsWith(call.link, "http")))
        => (call.st = "ok" /\ call.val = call.link)

C1_Witness ==
    /\ Returned("resolve")
    /\ call.link = "http://e//a/"
    /\ call.val = "http://e//a/"
    /\ call.base = "/d?v="

StaticHeads ==
    {"$tutorial", "$reference", "$category", "$syntax", "$styling", "$scripting",
     "$context", "$guides", "$changelog", "$community"}

\* What the known-destinations table promises for a head.
StaticRoute(head, base) ==
    IF head = "$tutorial" THEN base \o "tutorial/"
    ELSE IF head = "$category" THEN base \o "reference/"
    ELSE base \o KnownSuffix(head) \o "/"

\* C2 as stated: for every base, resolve of a static head is the base, the
\* head's fixed suffix and "/".
C2_StaticHeadAnyBase ==
    (Returned("resolve") /\ call.link \in StaticHeads)
        => (call.st = "ok" /\ call.val = StaticRoute(call.link, call.base))

\* C2 amended: for every base that contains neither '#' nor '?', resolve of
\* a static head is the base, the head's fixed suffix and "/", $category as
\* $reference, whatever the library binds under the head's name.
C2_StaticHead ==
    (Returned("resolve") /\ call.link \in StaticHeads /\ ~ContainsAny(call.base, {"#", "?"}))
        => (call.st = "ok" /\ call.val = StaticRoute(call.link, call.base))

\* $context is also a definition of this library; the table wins.
C2_Witness ==
    /\ Returned("resolve")
    /\ env = "nest"
    /\ call.link = "$context"
    /\ call.base = DocsBase
    /\ call.val = "https://typst.app/docs/reference/context/"

\* The walk of a head as the specification describes it: the captured
\* category, the leaf and the segment after the leaf.
HeadParts(head) == Split(TrimStartMatches(head, "$"), ".")

HeadWalk(head) == Walk(Env.lib, HeadParts(head), 1, Env.lib.global, NoCat)

LeafOf(head) == HeadParts(head)[HeadWalk(head).i]

HasLeaf(head) ==
    /\ HeadWalk(head).category # NoCat
    /\ HeadWalk(head).i <= Len(HeadParts(head))
    /\ ScopeGet(Env.lib, HeadWalk(head).focus, LeafOf(head)).kind # "none"

\* The groups of the filled registry that list the leaf under the captured category.
GroupsOf(head) ==
    LET filled == GroupsInit(Env).val
    IN  {filled[i] : i \in {j \in 1..Len(filled) :
            /\ filled[j].category = HeadWalk(head).category
            /\ LeafOf(head) \in {filled[j].filter[k] : k \in 1..Len(filled[j].filter)}}}

ListingRoute(group, head, base) ==
    base \o "reference/" \o group.category \o "/" \o group.name \o "/#functions-" \o LeafOf(head)

PerSymbolRoute(head, base) ==
    base \o "reference/" \o HeadWalk(head).category \o "/" \o LeafOf(head)

\* C3: when the leaf of a head is in the filter of a group of the captured
\* category, resolve_definition returns that group's listing route with
\* #functions-<leaf> (followed by -<segment> when a segment follows the
\* leaf) and not the per-symbol route.
C3_GroupedPrecedence ==
    (Returned("resolve_definition") /\ HasLeaf(call.link) /\ GroupsOf(call.link) # {})
        => /\ call.st = "ok"
           /\ \E g \in GroupsOf(call.link) :
                LET listing == ListingRoute(g, call.link, call.base)
                    parts == HeadParts(call.link)
                    i == HeadWalk(call.link).i
                IN  call.val = IF i < Len(parts) THEN listing \o "-" \o parts[i + 1]
                               ELSE listing
           /\ call.val # PerSymbolRoute(call.link, call.base)
           /\ ~StartsWith(call.val, PerSymbolRoute(call.link, call.base) \o "/#definitions-")
           /\ ~StartsWith(call.val, PerSymbolRoute(call.link, call.base) \o "/#parameters-")

\* abs is a function of the calc module, which the calc group lists.
C3_Witness ==
    /\ Returned("resolve_definition")
    /\ env = "std"
    /\ call.link = "$calc.abs"
    /\ call.base = DocsBase
    /\ call.val = "https://typst.app/docs/reference/foundations/calc/#functions-abs"

\* The route before the trailing-slash rule: the head's route and the tail.
ComputedRoute ==
    LET sp == split_link(call.link)
        known == resolve_known(sp.head, call.base)
        route == IF known.some THEN known.route
                 ELSE resolve_definition(Env, GROUPS, sp.head, call.base).val
    IN  IF sp.tail = "" THEN route ELSE route \o "/" \o sp.tail

\* C4: a resolved route that has '#' or '?' gets no slash; any other gets
\* one slash when it does not end with one, and none when it does.
C4_TrailingSlash ==
    (Returned("resolve") /\ call.st = "ok" /\ ~(StartsWith(call.link, "#") \/ StartsWith(call.link, "http")))
        => LET c == ComputedRoute
               marked == \E i \in 1..Len(c) : CharAt(c, i) = "#" \/ CharAt(c, i) = "?"
               slashed == Len(c) > 0 /\ CharAt(c, Len(c)) = "/"
           IN  call.val = IF marked \/ slashed THEN c ELSE c \o "/"

\* The tail already ends with a slash: no second one.
C4_Witness ==
    /\ Returned("resolve")
    /\ call.link = "$cite//a/"
    /\ call.base = DocsBase
    /\ call.val = "https://typst.app/docs/reference/model/cite/a/"

-----------------------------------------------------------------------------
(* Properties of route_of_value and ROUTE_MAPS, under SpecIndex *)

\* A function that is neither a native nor an element function.
IsClosureLike(v) == v.kind = "func" /\ v.repr \notin {"native", "element"}

\* The keys a lookup can meet: the keys of the index and of every value asked about.
KeysSeen ==
    {ROUTE_MAPS.map[i].key : i \in 1..Len(ROUTE_MAPS.map)}
        \cup {CatKey(v) : v \in Values(Env)}

\* C5: route_of_value of a closure or other user-defined function returns
\* not found whatever the index holds, and the key of such a function is
\* equal to no key, the key made again from the same function included.
C5_ClosureNotFound ==
    /\ (query.pc = "returned" /\ IsClosureLike(query.val)) => query.res = NoRoute
    /\ \A v \in Values(Env) :
          IsClosureLike(v) =>
              /\ ~CatKeyEq(CatKey(v), CatKey(v))
              /\ \A k \in KeysSeen : ~CatKeyEq(CatKey(v), k) /\ ~CatKeyEq(k, CatKey(v))

\* The library's own categorized closure is in the built index under the
\* name a caller's closure has, and asking about it found nothing.
C5_Witness ==
    /\ env = "nest"
    /\ ROUTE_MAPS.state = "init"
    /\ \E i \in 1..Len(ROUTE_MAPS.map) :
          /\ ROUTE_MAPS.map[i].key = CatKey(query.val)
          /\ ROUTE_MAPS.map[i].route = "reference/model/cite/"
    /\ query.pc = "returned"
    /\ query.val.repr = "closure"
    /\ query.res = NoRoute

\* Two values that denote the same native function, element function or type.
SameIdentity(a, b) == CatKeyEq(CatKey(a), CatKey(b))

-----------------------------------------------------------------------------
(* Properties of plain_docs_sentence, under SpecDocs *)

Finished == scan.pc = "returned"

\* The position of the first ']' of a text.
FirstClose(t) == Find(t, "]", 1)

\* "[label](target)": the text opens a span, "(" follows the first ']',
\* and the first ')' after it ends the text.  The label holds no backtick.
LinkForm(t) ==
    /\ CharAt(t, 1) = "["
    /\ CharAt(t, FirstClose(t) + 1) = "("
    /\ Find(t, ")", FirstClose(t) + 2) = Len(t)
    /\ ~ContainsAny(Slice(t, 2, FirstClose(t) - 1), {Backtick})

LinkLabel(t) == Slice(t, 2, FirstClose(t) - 1)

LinkTarget(t) == Slice(t, FirstClose(t) + 2, Len(t) - 1)

\* C7: for an input "[label](target)" whose target resolves against
\* "https://typst.app/docs/" to R, the output is "[label](" R ")": the label
\* is copied and the target replaced.
C7_LinkRewritten ==
    (Finished /\ LinkForm(scan.input))
        => LET r == resolve(Env, Uninit, LinkTarget(scan.input), "https://typst.app/docs/")
           IN  r.st = "ok"
                   => scan.output = "[" \o LinkLabel(scan.input) \o "](" \o r.val \o ")"

C7_Witness ==
    /\ Finished
    /\ scan.input = "[a]($cite)"
    /\ scan.output = "[a](https://typst.app/docs/reference/model/cite/)"
    /\ scan.resolved = << [link |-> "$cite", st |-> "ok"] >>

\* The number of spans of a chain "[..][..].." whose spans hold no bracket,
\* parenthesis or backtick; -1 for a text that is no such chain.
RECURSIVE SpanCount(_)
SpanCount(t) ==
    IF t = "" THEN 0
    ELSE LET k == FirstClose(t)
             rest == SpanCount(Slice(t, k + 1, Len(t)))
         IN  IF \/ CharAt(t, 1) # "["
                \/ k > Len(t)
                \/ ContainsAny(Slice(t, 2, k - 1), {"[", "(", ")", Backtick})
                \/ rest = -1
             THEN -1
             ELSE rest + 1

\* C8: an input that is a chain of two or more bracket spans, without
\* parentheses or backticks, is returned unchanged and resolve is not called.
C8_ReferenceChainUnchanged ==
    (Finished /\ SpanCount(scan.input) >= 2)
        => scan.output = scan.input /\ scan.resolved = <<>>

C8_Witness ==
    /\ Finished
    /\ scan.input = "[a][a][a]"
    /\ scan.output = "[a][a][a]"
    /\ scan.resolved = <<>>

\* A text pre "(x)" post where pre is a lone ']' or an even chain of spans,
\* so that the ']' before '(' closed no in-link span, and post is a chain.
PlainParenForm(t) ==
    LET k == Find(t, "(", 1)
        j == Find(t, ")", k)
        pre == Slice(t, 1, k - 1)
    IN  /\ j <= Len(t)
        /\ pre = "]" \/ (SpanCount(pre) >= 2 /\ SpanCount(pre) % 2 = 0)
        /\ ~ContainsAny(Slice(t, k + 1, j - 1), {"[", "]", "(", Backtick})
        /\ SpanCount(Slice(t, j + 1, Len(t))) >= 0

\* The step called resolve.
CallsResolve == Len(scan'.resolved) > Len(scan.resolved)

\* C9: resolve is called only on a ']' met inside a link span and followed
\* by '('; a "(x)" after a reference-style pair or after a ']' outside a
\* link span is copied as it is, so "[a][b](test)[c]" comes back unchanged.
C9_ParenOnlyAfterLinkClose ==
    /\ [][CallsResolve => /\ scan.link
                          /\ CharAt(scan.docs, scan.cursor + 1) = "]"
                          /\ CharAt(scan.docs, scan.cursor + 2) = "("]_vars
    /\ []((Finished /\ PlainParenForm(scan.input))
              => scan.output = scan.input /\ scan.resolved = <<>>)

C9_Witness ==
    /\ Finished
    /\ scan.input = "[a][a](t)[a]"
    /\ scan.output = "[a][a](t)[a]"
    /\ scan.resolved = <<>>

\* The step's resolve call returned an error.
ResolveFailed == CallsResolve /\ scan'.resolved[Len(scan'.resolved)].st # "ok"

-----------------------------------------------------------------------------
(* Properties of the LazyLocks, under SpecLazy *)

\* The thread is at a lock whose initializer another thread is running.
Blocked(t) == Need(t) # "" /\ LockValue(Need(t)).state = "building"

\* C11: for LIBRARY, GROUPS and ROUTE_MAPS, whatever the interleaving of the
\* first callers, the initializer runs at most once and has run once when
\* the lock holds its value; a thread that arrives while it runs does not
\* move before it is done; and what any thread has read through a lock is
\* the lock's finished value, never a registry or index still being built.
C11_BuiltOnce ==
    /\ [](\A l \in LockNames :
              /\ once[l].runs <= 1
              /\ LockValue(l).state = "init" => once[l].runs = 1)
    /\ [](\A t \in Callers : \A l \in LockNames :
              threads[t].seen[l] # NotSeen
                  => /\ LockValue(l).state = "init"
                     /\ threads[t].seen[l] = LockValue(l))
    /\ [][\A t \in Callers : Blocked(t) => threads'[t] = threads[t]]_vars

\* A late caller of route_of_value waits while the first caller, building
\* the index, is inside the initializer of GROUPS with some groups filled.
C11_Witness ==
    /\ \E t \in Callers, u \in Callers :
          /\ once["ROUTE_MAPS"].owner = t
          /\ once["GROUPS"].owner = t
          /\ GROUPS.val # <<>>
          /\ u # t
          /\ Blocked(u)
          /\ Need(u) = "ROUTE_MAPS"
    /\ once["LIBRARY"].runs = 1

-----------------------------------------------------------------------------
(* Properties of resolve's failures, under Spec *)

\* The text of a link before its first '/'.
HeadOf(link) == Slice(link, 1, Find(link, "/", 1) - 1)

\* The dotted path names a binding: each part but the last one reached is a
\* module of the scope before it, and the part after them is bound there.
RECURSIVE Denotes(_, _, _)
Denotes(scope, parts, i) ==
    LET b == ScopeGet(Env.lib, scope, parts[i])
    IN  IF b.kind = "module" /\ i < Len(parts) THEN Denotes(b.scope, parts, i + 1)
        ELSE b.kind # "none"

\* C12: resolve returns an error for the empty link, for every link that
\* starts with '/' (the head is empty), and for every link, not one returned
\* as it is, whose head is no static destination and names no definition.
C12_UnresolvableHeadFails ==
    (Returned("resolve") /\ ~StartsWith(call.link, "#") /\ ~StartsWith(call.link, "http"))
        => LET head == HeadOf(call.link)
               static == head \in StaticHeads \cup {"$universe"}
               defined == Denotes(Env.lib.global, Split(TrimStartMatches(head, "$"), "."), 1)
           IN  (head = "" \/ (~static /\ ~defined)) => call.st = "err"

\* A link that starts with '/': its head is empty and it has no category.
C12_Witness ==
    /\ Returned("resolve")
    /\ call.link = "/a"
    /\ call.st = "err"
    /\ call.val = " has no category"

-----------------------------------------------------------------------------
(* Properties of Config::update and determine_font_opts, under SpecConfig *)

\* The update has been applied (once or twice) to the seeded config.
Updated == config.pc \in {"once", "twice"}

\* The value is one the key accepts.
ValidFor(k, v) ==
    CASE k = "exportPdf" -> v.t = "str" /\ v.s \in {"never", "onSave", "onType"}
      [] k = "compileStatus" -> v.t = "str" /\ v.s \in {"enable", "disable"}
      [] k = "typstExtraArgs" -> v.t = "arr" /\ try_parse_from(v.a).st = "ok"
      [] k = "systemFonts" -> v.t = "bool"
      [] k = "rootPath" -> v.t = "str"

\* The config holds the value for the key.
Holds(c, k, v) ==
    CASE k = "exportPdf" -> c.export_pdf = v.s
      [] k = "compileStatus" -> c.notify_status = (v.s = "enable")
      [] k = "typstExtraArgs" ->
            /\ c.typst_extra_args.some
            /\ c.typst_extra_args.entry = try_parse_from(v.a).cmd.input
            /\ c.typst_extra_args.root_dir = try_parse_from(v.a).cmd.root
            /\ c.typst_extra_args.ignore_system_fonts
                   = try_parse_from(v.a).cmd.ignore_system_fonts
      [] k = "systemFonts" -> c.system_fonts = SomeBool(v.b)
      [] k = "rootPath" -> c.root_path = Some(v.s)

\* The keys an update object has both at top level and under "tinymist".
SharedKeys(u) ==
    IF u.object /\ u.tinymist.t = "obj"
    THEN {k \in ConfigKeys : u.top[k].t # "absent" /\ u.tinymist.o[k].t # "absent"}
    ELSE {}

\* C13: after Config::update with an object that has a key both at top level
\* and under "tinymist", the config holds the value from "tinymist".
C13_NamespacedWins ==
    Updated =>
        \A k \in SharedKeys(config.update) :
            ValidFor(k, config.update.tinymist.o[k])
                => Holds(config.cfg, k, config.update.tinymist.o[k])

\* When Config::update returns Ok, the value from "tinymist" is the one held.
NamespacedWinsWhenOk ==
    (Updated /\ config.res.st = "ok") =>
        \A k \in SharedKeys(config.update) :
            ValidFor(k, config.update.tinymist.o[k])
                => Holds(config.cfg, k, config.update.tinymist.o[k])

\* C14: when Config::update returned Ok for an update object, applying the same
\* object again returns Ok and leaves every field as the first application
\* left it, whatever the config was before.
C14_UpdateIdempotent ==
    (config.pc = "twice" /\ config.first.st = "ok")
        => /\ config.res.st = "ok"
           /\ config.cfg = config.first.cfg
           /\ config.before = config.first.cfg

\* An update with extra arguments at both levels, as in
\* test_entry_by_extra_args, applied twice to a config that an earlier update
\* had given another entry, root and status.
C14_Witness ==
    /\ config.pc = "twice"
    /\ config.first.st = "ok"
    /\ config.seed.object /\ config.seed.top["compileStatus"].t = "str"
    /\ config.seed.top["typstExtraArgs"].t = "arr"
    /\ config.update.tinymist.t = "obj"
    /\ config.update.top["typstExtraArgs"] = JArr(<<"--root", ".">>)
    /\ config.update.top["rootPath"] = JStr("/w")
    /\ config.update.tinymist.o["typstExtraArgs"] = JArr(<<"main.typ">>)
    /\ config.cfg.entry = Some("main.typ")
    /\ ~config.cfg.root_path.some
    /\ ~config.cfg.notify_status

\* The map of an update object that Config::update applies last.
AppliedLast(u) == IF u.tinymist.t = "obj" THEN u.tinymist.o ELSE u.top

\* What determine_font_opts returned for the config as it is.
FontOptsRead == config.opts.some

\* C15: ignore_system_fonts is the negation of systemFonts when systemFonts is
\* set; otherwise the --ignore-system-fonts flag of the parsed extra arguments
\* when there are parsed extra arguments; otherwise the initial font option.
\* In terms of the update object, after an update that returned Ok: the map
\* applied last decides, its "systemFonts" boolean before its extra arguments.
C15_SystemFontsFirst ==
    /\ FontOptsRead =>
          config.opts.ignore_system_fonts =
              IF config.cfg.system_fonts.some THEN ~config.cfg.system_fonts.val
              ELSE IF config.cfg.typst_extra_args.some
                   THEN config.cfg.typst_extra_args.ignore_system_fonts
                   ELSE config.cfg.font_opts.ignore_system_fonts
    /\ (FontOptsRead /\ Updated /\ config.res.st = "ok") =>
          LET m == AppliedLast(config.update)
          IN  config.opts.ignore_system_fonts =
                  IF m["systemFonts"].t = "bool" THEN ~m["systemFonts"].b
                  ELSE SeqContains(m["typstExtraArgs"].a, "--ignore-system-fonts")

\* systemFonts is true and the extra arguments say --ignore-system-fonts: the
\* system fonts are not ignored.
C15_Witness ==
    /\ FontOptsRead
    /\ Updated
    /\ config.res.st = "ok"
    /\ config.update.top["systemFonts"] = JBool(TRUE)
    /\ config.update.top["typstExtraArgs"] = JArr(<<"--ignore-system-fonts">>)
    /\ config.cfg.system_fonts = SomeBool(TRUE)
    /\ config.cfg.typst_extra_args.ignore_system_fonts
    /\ ~config.opts.ignore_system_fonts

\* No update got as far as the extra arguments: the initial option is kept.
FontOptsInitialKept ==
    /\ FontOptsRead
    /\ config.pc = "seeded"
    /\ config.res.st = "err"
    /\ ~config.cfg.typst_extra_args.some
    /\ config.cfg.font_opts.ignore_system_fonts
    /\ config.opts.ignore_system_fonts

-----------------------------------------------------------------------------
(* Properties of resolve_definition's default route and walk, under Spec *)

\* Every segment after the leaf is matched: there is none, or one that is a
\* field of the leaf value or a parameter of the leaf function, or two, a
\* field of the leaf value and a parameter of that field's function.
ExtrasMatched(head) ==
    LET parts == HeadParts(head)
        i == HeadWalk(head).i
        value == ScopeGet(Env.lib, HeadWalk(head).focus, LeafOf(head))
        extras == Len(parts) - i
    IN  \/ extras = 0
        \/ /\ extras = 1
           /\ \/ ValueField(Env.lib, value, parts[i + 1]).kind # "none"
              \/ HasParam(value, parts[i + 1])
        \/ /\ extras = 2
           /\ ValueField(Env.lib, value, parts[i + 1]).kind # "none"
           /\ HasParam(ValueField(Env.lib, value, parts[i + 1]), parts[i + 2])

\* C16: in the ungrouped route of resolve_definition, a head with a segment
\* after the leaf that is not matched fails with "field .. not found": no
\* successful route leaves a segment out.
C16_NoSegmentDropped ==
    (Returned("resolve_definition") /\ call.st # "panic"
        /\ HasLeaf(call.link) /\ GroupsOf(call.link) = {} /\ ~ExtrasMatched(call.link))
        => /\ call.st = "err"
           /\ StartsWith(call.val, "field ")
           /\ EndsWith(call.val, " not found")

\* The category of the first segment, from the left, whose binding in the
\* scope reached so far has one; the scope changes at each module segment.
RECURSIVE FirstCategory(_, _, _)
FirstCategory(scope, parts, i) ==
    LET b == ScopeGet(Env.lib, scope, parts[i])
    IN  IF b.cat # NoCat THEN b.cat
        ELSE IF b.kind = "module" /\ i < Len(parts) THEN FirstCategory(b.scope, parts, i + 1)
        ELSE NoCat

\* C17: the route of resolve_definition is under the category of the first
\* segment that has one, whatever categories later segments have; when no
\* segment has one the call fails with "<head> has no category", also when
\* the leaf is not bound; no other failure has that message.
C17_FirstCategory ==
    (Returned("resolve_definition") /\ call.st # "panic")
        => LET cat == FirstCategory(Env.lib.global, HeadParts(call.link), 1)
           IN  /\ cat = NoCat => call.st = "err" /\ call.val = call.link \o " has no category"
               /\ (cat # NoCat /\ call.st = "ok")
                      => StartsWith(call.val, call.base \o "reference/" \o cat \o "/")
               /\ (cat # NoCat /\ call.st = "err") => call.val # call.link \o " has no category"

\* tau has the category math, in the module calc of category foundations,
\* in the module std of no category.
C17_Witness ==
    /\ Returned("resolve_definition")
    /\ env = "nest"
    /\ call.link = "$std.calc.tau"
    /\ call.base = DocsBase
    /\ call.val = "https://typst.app/docs/reference/foundations/tau"

\* The leaf is bound nowhere and no category was captured.
AbsentLeafNoCategory ==
    /\ Returned("resolve_definition")
    /\ env = "nest"
    /\ call.link = "$std.entry"
    /\ call.st = "err"
    /\ call.val = "$std.entry has no category"

-----------------------------------------------------------------------------
(* Properties of the ROUTE_MAPS build, under SpecIndex *)

\* The entry the next turn of the while loop pops, and its scope.
Popped == ROUTE_MAPS.todo[Len(ROUTE_MAPS.todo)]

PoppedScope == Env.lib.scopes[Popped.scope]

\* A turn of the while loop that went through.
BuildTurn ==
    /\ ROUTE_MAPS.state = "building"
    /\ ROUTE_MAPS.todo # <<>>
    /\ ROUTE_MAPS'.state = "building"
    /\ ROUTE_MAPS' # ROUTE_MAPS

\* C18: a turn of the build pushes the nested scope of every function, type
\* and module binding of the scope it visits, grouped functions and
\* functions without a route included.
C18_ScopesPushed ==
    [][BuildTurn =>
         \A i \in 1..Len(PoppedScope) :
            (PoppedScope[i].kind \in {"func", "type", "module"} /\ PoppedScope[i].scope # NoScope)
                => \E j \in Len(ROUTE_MAPS.todo)..Len(ROUTE_MAPS'.todo) :
                      ROUTE_MAPS'.todo[j].scope = PoppedScope[i].scope]_vars

\* The binding makes the turn insert a key: a named function or a type, with
\* a category of its own or of the entry.
Inserts(item, bind) ==
    /\ item.cat # NoCat \/ bind.cat # NoCat
    /\ \/ bind.kind = "func" /\ bind.fname # ""
       \/ bind.kind = "type"

\* C19: no key is inserted twice during the build: every insertion of a
\* turn adds an entry, and no entry of the map changes its route.
C19_NoKeyTwice ==
    [][BuildTurn =>
         /\ Len(ROUTE_MAPS'.map) = Len(ROUTE_MAPS.map)
               + Cardinality({i \in 1..Len(PoppedScope) : Inserts(Popped, PoppedScope[i])})
         /\ \A i \in 1..Len(ROUTE_MAPS.map) : ROUTE_MAPS'.map[i] = ROUTE_MAPS.map[i]]_vars

-----------------------------------------------------------------------------
(* Properties of the ROUTE_MAPS build in any order, under SpecOrder *)

\* The key-to-route pairs of a map.
Pairs(map) == {map[i] : i \in 1..Len(map)}

\* C20: whatever entry of the work list each turn takes, and in whichever
\* direction it goes through the scope, the finished map has the pairs of
\* the map the code's own order builds.
C20_OrderIndependent ==
    ROUTE_MAPS.state = "init"
        => Pairs(ROUTE_MAPS.map) = Pairs(BuildAll(Env, <<>>, Roots(Env.lib), Uninit))

-----------------------------------------------------------------------------
(* The index against the resolver, under SpecIndex *)

\* The bindings reachable from a scope by a dotted path, each with its path.
RECURSIVE PathBindings(_, _)
PathBindings(sid, prefix) ==
    LET sc == Env.lib.scopes[sid]
    IN  UNION {{[path |-> prefix \o sc[i].name, bind |-> sc[i]]}
                  \cup (IF sc[i].scope # NoScope
                        THEN PathBindings(sc[i].scope, prefix \o sc[i].name \o ".")
                        ELSE {})
               : i \in 1..Len(sc)}

\* C21: when route_of_value returns a route for a function or type, resolve
\* of "$" and any dotted path that reaches it from the global scope returns
\* the base (one without '#' and '?') followed by that route.
C21_SameRoute ==
    (query.pc = "returned" /\ query.res # NoRoute)
        => \A pb \in PathBindings(Env.lib.global, "") :
              SameIdentity(ValueOf(pb.bind), query.val)
                  => \A base \in {b \in Bases : ~ContainsAny(b, {"#", "?"})} :
                        /\ resolve(Env, GROUPS, "$" \o pb.path, base).st = "ok"
                        /\ resolve(Env, GROUPS, "$" \o pb.path, base).val = base \o query.res

\* The bindings below a scope, each with a category: its own before the one
\* of its ancestors (ownFirst), or the one the scope was entered with before
\* its own.
RECURSIVE CatBindings(_, _, _)
CatBindings(sid, inherited, ownFirst) ==
    LET sc == Env.lib.scopes[sid]
        catOf(b) == IF ownFirst THEN (IF b.cat # NoCat THEN b.cat ELSE inherited)
                    ELSE (IF inherited # NoCat THEN inherited ELSE b.cat)
    IN  UNION {{[bind |-> sc[i], cat |-> catOf(sc[i])]}
                  \cup (IF sc[i].scope # NoScope
                        THEN CatBindings(sc[i].scope, catOf(sc[i]), ownFirst)
                        ELSE {})
               : i \in 1..Len(sc)}

RootBindings(ownFirst) ==
    CatBindings(Env.lib.global, NoCat, ownFirst) \cup CatBindings(Env.lib.math, NoCat, ownFirst)

\* Every route of the finished index is under the category of a binding of
\* its key.
RoutesUnder(bindings) ==
    ROUTE_MAPS.state = "init"
        => \A i \in 1..Len(ROUTE_MAPS.map) :
              \E cb \in bindings :
                  /\ CatKey(cb.bind) = ROUTE_MAPS.map[i].key
                  /\ cb.cat # NoCat
                  /\ StartsWith(ROUTE_MAPS.map[i].route, "reference/" \o cb.cat \o "/")

\* C22 as stated: every route of the finished index is under its binding's
\* own category, or else under the one of its nearest categorized ancestor.
C22_OwnCategoryFirst == RoutesUnder(RootBindings(TRUE))

\* C22: every route of the finished index is under the category of the
\* first categorized binding on the path from the root to its binding, the
\* binding itself last; a key with no such binding has no route.
C22_InheritedFirst == RoutesUnder(RootBindings(FALSE))

\* The type int has the category math and sits in the module calc of
\* category foundations: its route and its member's are under foundations.
C22_Witness ==
    /\ env = "nest"
    /\ ROUTE_MAPS.state = "init"
    /\ MapGet(ROUTE_MAPS.map, CatKey(ValueOf(Type("int", "math", {"value"}, "int"))))
           = "reference/foundations/calc/#definitions-int"
    /\ query.pc = "returned"
    /\ query.val.id = "signum"
    /\ query.res = "reference/foundations/int/#definitions-signum"

-----------------------------------------------------------------------------
(* Termination of the ROUTE_MAPS build, under SpecIndex *)

\* The scopes a binding of another scope leads to.
NestedScopes ==
    UNION {{Env.lib.scopes[sid][i].scope : i \in 1..Len(Env.lib.scopes[sid])} :
             sid \in DOMAIN Env.lib.scopes} \ {NoScope}

RECURSIVE SumOver(_, _, _)
SumOver(f, seq, i) == IF i > Len(seq) THEN 0 ELSE f[i] + SumOver(f, seq, i + 1)

\* The number of visits an entry of the work list can still cause: its own
\* and those of every scope below it, once per path.
RECURSIVE Visits(_)
Visits(sid) ==
    LET sc == Env.lib.scopes[sid]
        below == [i \in 1..Len(sc) |->
                    IF sc[i].kind \in {"func", "type", "module"} /\ sc[i].scope # NoScope
                    THEN Visits(sc[i].scope) ELSE 0]
    IN  1 + SumOver(below, sc, 1)

\* The turns the work list can still cause.
TurnsLeft(todo) == SumOver([i \in 1..Len(todo) |-> Visits(todo[i].scope)], todo, 1)

\* C23: the build terminates: every step of a running build either ends it
\* (the work list is empty and the map is published, or the turn panicked)
\* or is a turn that lowers the number of turns the work list can still
\* cause, a natural number also when a scope is reachable by several paths.
C23_BuildTerminates ==
    [][(ROUTE_MAPS.state = "building" /\ ROUTE_MAPS' # ROUTE_MAPS)
          => \/ ROUTE_MAPS.todo = <<>> /\ ROUTE_MAPS'.state = "init"
             \/ ROUTE_MAPS.todo # <<>> /\ ROUTE_MAPS'.state = "poisoned"
             \/ /\ ROUTE_MAPS.todo # <<>>
                /\ ROUTE_MAPS'.state = "building"
                /\ TurnsLeft(ROUTE_MAPS'.todo) < TurnsLeft(ROUTE_MAPS.todo)]_vars

\* A finished build on a library whose math scope is both a root of the
\* work list and the scope of a module binding: it was visited on both
\* paths, the second visit left its route.
C23_Witness ==
    /\ ROUTE_MAPS.state = "init"
    /\ Env.lib.math \in NestedScopes
    /\ \E i \in 1..Len(ROUTE_MAPS.map) :
          ROUTE_MAPS.map[i].route = "reference/math/math/#definitions-frac"

-----------------------------------------------------------------------------
(* The filters of GROUPS, under Spec *)

\* The scopes a path of module names leads to from the root scope.
Reached(path) ==
    LET n == Len(path)
        chains == {c \in [0..n -> DOMAIN Env.lib.scopes] :
                     /\ c[0] = Env.lib.global
                     /\ \A k \in 1..n :
                           \E i \in 1..Len(Env.lib.scopes[c[k - 1]]) :
                              LET b == Env.lib.scopes[c[k - 1]][i]
                              IN  b.name = path[k] /\ b.kind = "module" /\ b.scope = c[k]}
    IN  {c[n] : c \in chains}

\* The names a scope binds to a function.
FunctionNames(sid) ==
    {Env.lib.scopes[sid][i].name :
        i \in {j \in 1..Len(Env.lib.scopes[sid]) : Env.lib.scopes[sid][j].kind = "func"}}

\* C24: in the initialized GROUPS every group has the name, category and
\* path it was given; a filter that was given is unchanged, and one that
\* was not holds exactly the names bound to a function in the scope its
\* path leads to from the root scope.
C24_FilterFilled ==
    GROUPS.state = "init"
        => /\ Len(GROUPS.val) = Len(Env.yml)
           /\ \A i \in 1..Len(Env.yml) :
                 LET given == Env.yml[i]
                     group == GROUPS.val[i]
                 IN  /\ [group EXCEPT !.filter = <<>>] = [given EXCEPT !.filter = <<>>]
                     /\ IF given.filter # <<>> THEN group.filter = given.filter
                        ELSE \E sid \in Reached(given.path) :
                                {group.filter[j] : j \in 1..Len(group.filter)}
                                    = FunctionNames(sid)

\* GROUPS is initialized with a group of the root scope (empty path, no
\* filter) next to a group with a filter: the first holds the two functions
\* of the root scope and none of its modules and types.
C24_Witness ==
    /\ GROUPS.state = "init"
    /\ \E i, j \in 1..Len(Env.yml) :
          /\ Env.yml[i].path = <<>> /\ Env.yml[i].filter = <<>>
          /\ GROUPS.val[i].filter = <<"cite", "rgb">>
          /\ Len(Env.lib.scopes[Env.lib.global]) > 2
          /\ Env.yml[j].filter # <<>> /\ GROUPS.val[j].filter = Env.yml[j].filter

-----------------------------------------------------------------------------
(* A failed initializer of GROUPS, under SpecLazy *)

\* C25: once the initializer of GROUPS has panicked, GROUPS stays as it is:
\* the initializer has run once and never runs again, no thread has read or
\* ever reads a value through the lock, a thread that dereferences it can
\* only panic, no call has returned, and ROUTE_MAPS, whose build reads
\* GROUPS, never holds a value.
C25_PoisonedForGood ==
    /\ [][GROUPS.state = "poisoned" => GROUPS' = GROUPS /\ once'["GROUPS"] = once["GROUPS"]]_vars
    /\ [](GROUPS.state = "poisoned"
            => /\ once["GROUPS"] = [owner |-> 0, runs |-> 1]
               /\ ROUTE_MAPS.state # "init"
               /\ \A t \in Callers :
                     /\ threads[t].seen["GROUPS"] = NotSeen
                     /\ threads[t].pc # "returned")
    /\ [][\A t \in Callers :
             (GROUPS.state = "poisoned" /\ Need(t) = "GROUPS" /\ threads'[t] # threads[t])
                 => threads'[t].pc = "panicked"]_vars

\* The second group's path names a type: the initializer of GROUPS panicked
\* inside the build of ROUTE_MAPS, both locks are poisoned, and the caller
\* of route_of_value and the later caller of resolve_definition have both
\* panicked.
C25_Witness ==
    /\ GROUPS = Poisoned("GROUPS")
    /\ ROUTE_MAPS = Poisoned("ROUTE_MAPS")
    /\ LIBRARY.state = "init"
    /\ once["ROUTE_MAPS"].runs = 1
    /\ \E t \in Callers, u \in Callers :
          /\ threads[t].op = "route_of_value" /\ threads[t].pc = "panicked"
          /\ threads[u].op = "resolve_definition" /\ threads[u].pc = "panicked"

-----------------------------------------------------------------------------
(* Inline code and second passes of plain_docs_sentence, under SpecPasses *)

\* The scanner is at a grave accent and the step is the turn that eats it.
SpanStep ==
    /\ scan.pc = "scanning"
    /\ scan.cursor < Len(scan.docs)
    /\ CharAt(scan.docs, scan.cursor + 1) = Backtick
    /\ scan' # scan

\* The position of the grave accent that closes the span opened at the
\* cursor, one past the end of the text when there is none.
SpanClose ==
    LET closes == {k \in (scan.cursor + 2)..Len(scan.docs) : CharAt(scan.docs, k) = Backtick}
    IN  IF closes = {} THEN Len(scan.docs) + 1
        ELSE CHOOSE k \in closes : \A j \in closes : k <= j

SpanContent == Slice(scan.docs, scan.cursor + 2, SpanClose - 1)

Wrapped(c) ==
    /\ Len(c) >= 2
    /\ \/ CharAt(c, 1) = "{" /\ CharAt(c, Len(c)) = "}"
       \/ CharAt(c, 1) = "[" /\ CharAt(c, Len(c)) = "]"

\* C26: the turn at a grave accent appends the span: its content as it is,
\* or without its first and last character when these are "{" and "}" or
\* "[" and "]", between two grave accents; the scanner goes on after the
\* closing grave accent, and nothing in the span opens, closes or resolves
\* a link.
C26_SpanReemitted ==
    [][SpanStep =>
         /\ scan'.output = scan.output \o Backtick
                \o (IF Wrapped(SpanContent)
                    THEN Slice(SpanContent, 2, Len(SpanContent) - 1)
                    ELSE SpanContent)
                \o Backtick
         /\ scan'.cursor = IF SpanClose > Len(scan.docs) THEN Len(scan.docs) ELSE SpanClose
         /\ scan'.link = scan.link
         /\ scan'.resolved = scan.resolved
         /\ GROUPS' = GROUPS]_vars

\* A doubly wrapped span has lost one layer.
C26_Witness ==
    /\ scan.pc = "returned"
    /\ scan.passes = <<>>
    /\ scan.input = "'{{a}}'"
    /\ scan.output = "'{a}'"

\* A span that holds a link in full is as it was, its link not resolved.
SpanWithLinkKept ==
    /\ scan.pc = "returned"
    /\ scan.passes = <<>>
    /\ scan.input = "'[a]($cite)'"
    /\ scan.output = scan.input
    /\ scan.resolved = <<>>

\* The second call has returned.
SecondPassDone == scan.pc = "returned" /\ Len(scan.passes) = 1

\* C27 as stated: the second pass returns the text it was given.
C27_Idempotent == SecondPassDone => scan.output = scan.passes[1].output

\* The contents of the inline-code spans of a text whose grave accents
\* are paired.
RECURSIVE Spans(_)
Spans(t) ==
    LET open == Find(t, Backtick, 1)
        close == Find(t, Backtick, open + 1)
    IN  IF open > Len(t) \/ close > Len(t) THEN {}
        ELSE {Slice(t, open + 1, close - 1)} \cup Spans(Slice(t, close + 1, Len(t)))

Contains(t, sub) ==
    \E i \in 1..(Len(t) - Len(sub) + 1) : Slice(t, i, i + Len(sub) - 1) = sub

\* C27: the second pass returns the text it was given when no inline-code
\* span of that text is wrapped in "{}" or "[]" and the text holds no
\* example fence: rewritten links, the not-found url and reference-style
\* links are left as they are.
C27_SecondPassStable ==
    (/\ SecondPassDone
     /\ \A c \in Spans(scan.passes[1].output) : ~Wrapped(c)
     /\ ~Contains(scan.passes[1].output, "'''example"))
        => scan.output = scan.passes[1].output

\* A rewritten link and a span the first pass closed went through the
\* second pass unchanged.
C27_Witness ==
    /\ SecondPassDone
    /\ scan.passes[1].input = "[a]($cite)'{"
    /\ scan.passes[1].output = "[a](https://typst.app/docs/reference/model/cite/)'{'"
    /\ scan.output = scan.passes[1].output

\* The link that got the not-found url went through the second pass
\* unchanged, next to a reference-style link.
NotFoundUrlKept ==
    /\ SecondPassDone
    /\ scan.passes[1].input = "[a](t)[a][a]"
    /\ scan.output = "[a](https://typst.app/docs/404.html)[a][a]"
    /\ scan.output = scan.passes[1].output

-----------------------------------------------------------------------------
(* Config::update replaces, and is not atomic; under SpecConfig *)

\* The config has what Config::update gives for a key the map does not have.
Reset(c, k) ==
    CASE k = "exportPdf" -> c.export_pdf = TaskWhenDefault
      [] k = "compileStatus" -> c.notify_status = FALSE
      [] k = "typstExtraArgs" ->
            /\ c.typst_extra_args = [NoExtraOpts EXCEPT !.some = TRUE]
            /\ c.entry = None
      [] k = "systemFonts" -> c.system_fonts = NoneBool
      [] k = "rootPath" -> c.root_path = c.typst_extra_args.root_dir

BadCompileStatus(m) ==
    m["compileStatus"].t = "str" /\ m["compileStatus"].s \notin {"enable", "disable"}

\* The map has extra arguments that CompileConfig::update_by_map rejects.
BadExtraArgs(m) ==
    \/ m["typstExtraArgs"].t \notin {"absent", "arr"}
    \/ m["typstExtraArgs"].t = "arr" /\ try_parse_from(m["typstExtraArgs"].a).st = "err"

\* The map of the update that made it fail with the given test, and the
\* config that map was applied to: the one before the update, or the one the
\* top-level map had left.
FailedOn(bad(_)) ==
    IF bad(config.update.top)
    THEN [map |-> config.update.top, prev |-> config.before]
    ELSE [map |-> config.update.tinymist.o,
          prev |-> update_by_map(config.before, config.update.top).cfg]

\* C29: when Config::update returns the error of "compileStatus", the config
\* has the export_pdf of the failing map and every other field as it was
\* before that map; when it returns the error of the extra arguments, it has
\* the export_pdf and notify_status of the failing map and every other field
\* as it was.
C29_NotAtomic ==
    /\ (config.pc = "once"
          /\ config.res.msg = "compileStatus must be either 'enable' or 'disable'")
         => LET f == FailedOn(BadCompileStatus)
            IN  config.cfg = [f.prev EXCEPT !.export_pdf = DeserTaskWhen(f.map["exportPdf"])]
    /\ (config.pc = "once" /\ config.res.msg = "failed to parse typstExtraArgs")
         => LET f == FailedOn(BadExtraArgs)
            IN  config.cfg = [f.prev EXCEPT
                                 !.export_pdf = DeserTaskWhen(f.map["exportPdf"]),
                                 !.notify_status = (f.map["compileStatus"] = JStr("enable"))]

\* The update before had set every field; the update has a new "exportPdf"
\* and a "compileStatus" that is rejected: the config has the new export_pdf
\* next to the notify_status, root and system_fonts of the update before.
C29_Witness ==
    /\ config.pc = "once"
    /\ config.res = [st |-> "err", msg |-> "compileStatus must be either 'enable' or 'disable'"]
    /\ config.update.top
          = Put(Put(EmptyMap, "exportPdf", JStr("onSave")), "compileStatus", JStr("on"))
    /\ config.update.tinymist.t = "absent"
    /\ config.before.export_pdf = "onType"
    /\ config.cfg.export_pdf = "onSave"
    /\ config.cfg.notify_status
    /\ config.cfg.root_path = Some("/r")
    /\ config.cfg.system_fonts = SomeBool(FALSE)

-----------------------------------------------------------------------------
(* Heads that name a module, under Spec *)

\* Every part names a module of the scope the parts before it lead to.
RECURSIVE AllModules(_, _, _)
AllModules(scope, parts, i) ==
    \/ i > Len(parts)
    \/ LET b == ScopeGet(Env.lib, scope, parts[i])
       IN  b.kind = "module" /\ AllModules(b.scope, parts, i + 1)

\* C30: resolve_definition on a head whose every segment names a nested
\* module returns an error, never a route: "link is missing first part" when
\* a segment has a category, "<head> has no category" when none has; and so
\* does resolve on a link with such a head that is no static destination.
C30_ModuleHeadFails ==
    /\ (Returned("resolve_definition") /\ AllModules(Env.lib.global, HeadParts(call.link), 1))
          => /\ call.st = "err"
             /\ call.val = IF FirstCategory(Env.lib.global, HeadParts(call.link), 1) # NoCat
                           THEN "link is missing first part"
                           ELSE call.link \o " has no category"
    /\ (/\ Returned("resolve")
        /\ HeadOf(call.link) \notin StaticHeads \cup {"$universe"}
        /\ StartsWith(call.link, "$")
        /\ AllModules(Env.lib.global, HeadParts(HeadOf(call.link)), 1))
          => call.st = "err"

\* The module calc of category foundations inside the module std: the walk
\* has the category and no part is left.
C30_Witness ==
    /\ Returned("resolve_definition")
    /\ env = "nest"
    /\ call.link = "$std.calc"
    /\ call.st = "err"
    /\ call.val = "link is missing first part"

====
